---- MODULE Spec2Model ----
(***************************************************************************)
(* Job orchestration and execution guarding of the ACE-Step API server:    *)
(* the job store, the submission queue and its single worker, the          *)
(* timeout-guarded compute call and the terminal cache writes.             *)
(***************************************************************************)
EXTENDS Integers, Sequences, FiniteSets, TLC

\* ------------------------------------------------------------------ bounds
MaxJobs == 3
QUEUE_MAXSIZE == 2
MaxRejected == 1
MaxRawLen == 3
MaxGiveUps == 1
MaxTextLen == 3
MaxIds == 2
MaxSweeps == 2
MaxUpdates == 3
MaxRuns == 2
MaxTicks == 2
MaxStamps == 3
MaxClock == 9
MaxHeartbeats == 2

\* ------------------------------------------------------------------ values
Jobs == 1..MaxJobs
NONE == "None"
Results == {"res_a"}
Errors == {"boom"}
TimeoutErr == "TimeoutError"
NoOutputsErr == "RuntimeError_no_outputs"
CacheErr == "cache_error"

\* traceback.format_exc() and str(exc): two diagnostics carrying the message
Traceback(e) == <<"traceback", e>>
StrExc(e) == <<"str", e>>
Contains(d, e) == d # NONE /\ d[2] = e

STATUS_MAP == [queued |-> 0, running |-> 0, succeeded |-> 1, failed |-> 2]
map_status_unknown_running(status) ==
    IF status \in DOMAIN STATUS_MAP THEN STATUS_MAP[status] ELSE 0
map_status(status) == IF status \in DOMAIN STATUS_MAP THEN STATUS_MAP[status] ELSE 2

Terminal == {"succeeded", "failed"}

\* ------------------------------------------------------------- job store
\* A record that is not in the store has status "absent".  trail is the
\* sequence of statuses the record has taken since it was created and first
\* is what the first transition to a terminal status recorded.
Outcome(status, result, error) == [status |-> status, result |-> result, error |-> error]
NoFirst == Outcome("none", NONE, NONE)

AbsentRecord ==
    [status |-> "absent", result |-> NONE, error |-> NONE, trail |-> <<>>, first |-> NoFirst]

create(s, j) ==
    [s EXCEPT ![j] = [status |-> "queued", result |-> NONE, error |-> NONE,
                      trail |-> <<"queued">>, first |-> NoFirst]]

mark_running(s, j) ==
    IF s[j].status = "queued"
    THEN [s EXCEPT ![j].status = "running",
                   ![j].trail = Append(@, "running")]
    ELSE s

mark_succeeded(s, j, r) ==
    IF s[j].status \in {"queued", "running"}
    THEN [s EXCEPT ![j].status = "succeeded", ![j].result = r, ![j].error = NONE,
                   ![j].trail = Append(@, "succeeded"),
                   ![j].first = Outcome("succeeded", r, NONE)]
    ELSE s

mark_failed_unguarded(s, j, d) ==
    IF s[j].status = "absent" THEN s
    ELSE [s EXCEPT ![j].status = "failed", ![j].result = NONE, ![j].error = d,
                   ![j].trail = Append(@, "failed"),
                   ![j].first = IF @ = NoFirst THEN Outcome("failed", NONE, d) ELSE @]

mark_failed_keep_result(s, j, d) ==
    IF s[j].status = "absent" THEN s
    ELSE [s EXCEPT ![j].status = "failed", ![j].error = d,
                   ![j].trail = Append(@, "failed"),
                   ![j].first = IF @ = NoFirst THEN Outcome("failed", NONE, d) ELSE @]

mark_failed(s, j, d) ==
    IF s[j].status \in {"queued", "running"}
    THEN [s EXCEPT ![j].status = "failed", ![j].result = NONE, ![j].error = d,
                   ![j].trail = Append(@, "failed"),
                   ![j].first = Outcome("failed", NONE, d)]
    ELSE s

\* ------------------------------------------------------------ cache writes
\* The cache holds, per job id, the status code of the payload last written
\* (-1: no entry).  A write is a no-op when no backend is configured.
update_local_cache_always(c, present, j, status) ==
    [c EXCEPT ![j] = map_status(status)]

update_local_cache(c, present, j, status) ==
    IF ~present THEN c ELSE [c EXCEPT ![j] = map_status(status)]

update_local_cache_progress(c, present, j) ==
    IF ~present THEN c ELSE [c EXCEPT ![j] = map_status("running")]

\* ------------------------------------------------------------------ state
VARIABLES
    store,          \* job id -> record
    nextJob,        \* the id the next create() hands out
    sub,            \* job id -> where its submission stands
    mode,           \* job id -> notification slot attached at submission
    job_queue,      \* app.state.job_queue
    pending_ids,    \* app.state.pending_ids
    job_temp_files, \* job ids with an entry in app.state.job_temp_files
    progress_queue, \* job id -> messages published on its channel
    done_event,     \* job id -> completion event set
    gaveUp,         \* job ids whose waiter left before the outcome was published
    cache,          \* job id -> status code of its cache entry
    local_cache,    \* a cache backend is configured
    wpc,            \* the queue worker: "idle", "executing", "dead"
    cur,            \* the job the worker is processing (0: none)
    epc,            \* the executor thread: "none", "pre", "joining", "post"
    bres,           \* outcome of _blocking_generate once epc = "post"
    joinSaw,        \* what the join of the current guarded call observed
    gen,            \* job id -> its service-generate thread
    abandoned,      \* job ids whose guarded call hit the deadline
    rejected,       \* submissions answered 429
    enqOrder,       \* job ids in the order their enqueue completed
    startOrder,     \* job ids in the order they were marked running
    bodyRaised,     \* job id -> exception _run_one_job raised to the worker
    markedTerminal, \* job ids that got a mark_succeeded/mark_failed call while terminal
    acks,           \* job id -> task_done calls
    cleanups,       \* job id -> temp-file cleanup calls
    env_timeout,    \* os.environ entry ACESTEP_GENERATION_TIMEOUT
    loaded,         \* modules whose import-time code has run
    crashed,        \* an import raised and the process went down
    DEFAULT_GENERATION_TIMEOUT, \* generate_music_execute._DEFAULT_GENERATION_TIMEOUT
    GENERATION_TIMEOUT,         \* openrouter_adapter.GENERATION_TIMEOUT
    waits,          \* "join" / "wait_for" -> how the wait on its deadline began
    task_id_list_raw, \* the task_id_list field of a /query_result body
    qbackend,       \* the cache backend the query sees is configured
    qcache,         \* the cache entry of the job known to the query
    qrecord,        \* the store record of the job known to the query
    qlog,           \* log_buffer.last_message
    qpc,            \* the query: "idle", "parsed", "done"
    task_ids,       \* what parse_task_id_list returned
    data_list,      \* what collect_query_results returned or raised
    last_write,     \* the last call of a cache writer
    age,            \* job id -> seconds since the time its record's age counts from
    lpc,            \* the cleanup loop: "sleeping", "sweeping", "exited", "dead"
    intervals,      \* cleanup intervals that have elapsed
    sweeps,         \* cleanup_old_jobs calls made by the loop
    sweep_errors,   \* sweeps that raised
    last_removed,   \* what the last cleanup_old_jobs call returned
    cleanup_log,    \* lines the cleanup loop logged
    last_progress,  \* the throttle state of _progress_cb
    now,            \* time.time(), in quarters of a second
    progress_fields,  \* progress, stage and progress_text of the record of job 1
    progress_payload, \* progress and stage of the progress payload in the cache
    sequential_runs,  \* number of sub-runs of the job
    run_idx,        \* the sub-run in progress
    slice_base,     \* base of the current sub-run's callback
    updates,        \* callbacks received
    offered,        \* the update the last callback handed to _progress_cb, the raw
                    \* value it came from, and whether no raw value of a sub-run
                    \* was lower than one before it in that sub-run
    forwarded,      \* the updates _progress_cb forwarded, oldest first
    lm_model_path,  \* the model path temporary_llm_model is asked for
    llm,            \* the LLM handler: its flags, last_init_params, initialize calls
    init_lock,      \* app.state._llm_init_lock
    app_llm,        \* app.state._llm_initialized / _llm_init_error
    tlm,            \* the frame of temporary_llm_model
    section_exc,    \* the exception the body of the with statement raised
    caller_sees,    \* the exception that left the with statement
    estimator,      \* the progress-estimation thread of job 1
    stop_event,     \* the estimator's stop event is set
    bpc,            \* job 1 between its start and its terminal cache write
    guarded_out,    \* what the guarded call of job 1 returned or raised
    cache_writes,   \* status codes of the cache payloads written for job 1, in order
    job_record,     \* whether the store has the job's record, and its created_at
    clock,          \* time.time(), in quarter seconds
    stamped,        \* the payloads the cache writers built for the job, in order
    unpublished,    \* messages the worker has still to put on the job's channel
    chan,           \* rec.progress_queue of the streamed job
    consumed,       \* message types the stream generator has taken, in order
    sse,            \* what the stream generator has yielded, in order
    gpc,            \* the stream generator: "start", "waiting" or "finished"
    heartbeats      \* heartbeat chunks yielded so far

submitVars == <<nextJob, sub, mode, rejected>>
queueVars == <<job_queue, pending_ids, job_temp_files, enqOrder>>
notifyVars == <<progress_queue, done_event, gaveUp>>
workerVars == <<wpc, cur, epc, bres, joinSaw, startOrder, bodyRaised, markedTerminal, acks, cleanups>>
genVars == <<gen, abandoned>>
configVars == <<env_timeout, loaded, crashed, DEFAULT_GENERATION_TIMEOUT, GENERATION_TIMEOUT,
                waits>>
queryVars == <<task_id_list_raw, qbackend, qcache, qrecord, qlog, qpc, task_ids, data_list>>
writeVars == <<last_write>>
cleanupVars == <<age, lpc, intervals, sweeps, sweep_errors, last_removed, cleanup_log>>
progressVars ==
    <<last_progress, now, progress_fields, progress_payload, sequential_runs, run_idx,
      slice_base, updates, offered, forwarded>>
llmVars == <<lm_model_path, llm, init_lock, app_llm, tlm, section_exc, caller_sees>>
estVars == <<estimator, stop_event, bpc, guarded_out, cache_writes>>
stampVars == <<job_record, clock, stamped>>
streamVars == <<unpublished, chan, consumed, sse, gpc, heartbeats>>
lateVars == <<llmVars, estVars, stampVars, streamVars>>
sideVars == <<configVars, queryVars, writeVars, cleanupVars, progressVars, lateVars>>
vars == <<store, cache, local_cache, submitVars, queueVars, notifyVars, workerVars, genVars,
          sideVars>>

NoThread == [st |-> "none", val |-> NONE]
NoOutcome == [kind |-> "none", val |-> NONE]
NoJoin == [alive |-> FALSE, st |-> "none", val |-> NONE]

IdlePipeline ==
    /\ nextJob = 1
    /\ sub = [j \in Jobs |-> "none"]
    /\ mode = [j \in Jobs |-> "none"]
    /\ job_queue = <<>>
    /\ pending_ids = <<>>
    /\ job_temp_files = {}
    /\ progress_queue = [j \in Jobs |-> <<>>]
    /\ done_event = [j \in Jobs |-> FALSE]
    /\ gaveUp = {}
    /\ cache = [j \in Jobs |-> -1]
    /\ wpc = "idle"
    /\ cur = 0
    /\ epc = "none"
    /\ bres = NoOutcome
    /\ joinSaw = NoJoin
    /\ gen = [j \in Jobs |-> NoThread]
    /\ abandoned = {}
    /\ rejected = 0
    /\ enqOrder = <<>>
    /\ startOrder = <<>>
    /\ bodyRaised = [j \in Jobs |-> NONE]
    /\ markedTerminal = {}
    /\ acks = [j \in Jobs |-> 0]
    /\ cleanups = [j \in Jobs |-> 0]

PipelineInit ==
    /\ store = [j \in Jobs |-> AbsentRecord]
    /\ IdlePipeline

\* The server as deployed, with a cache backend.
ServerInit == PipelineInit /\ local_cache = TRUE

\* ------------------------------------------------- generation timeout
\* The setting is a text of characters, or is not set at all.
Digits10 == <<"0", "1", "2", "3", "4", "5", "6", "7", "8", "9">>
IsDigit(c) == \E i \in 1..10 : Digits10[i] = c
DigitVal(c) == (CHOOSE i \in 1..10 : Digits10[i] = c) - 1

RawAlphabet == {"-", "0", "6", "x", " "}
RawTexts == UNION {[1..n -> RawAlphabet] : n \in 0..MaxRawLen}
Unset == [set |-> FALSE, raw |-> <<>>]
EnvValues == {Unset} \cup {[set |-> TRUE, raw |-> r] : r \in RawTexts}

\* os.environ.get(name, default)
environ_get(env, default) == IF env.set THEN env.raw ELSE default

RECURSIVE LStrip(_)
LStrip(t) == IF t # <<>> /\ Head(t) = " " THEN LStrip(Tail(t)) ELSE t

RECURSIVE RStrip(_)
RStrip(t) ==
    IF t # <<>> /\ t[Len(t)] = " " THEN RStrip(SubSeq(t, 1, Len(t) - 1)) ELSE t

RECURSIVE DigitsValue(_)
DigitsValue(t) ==
    IF t = <<>> THEN 0
    ELSE 10 * DigitsValue(SubSeq(t, 1, Len(t) - 1)) + DigitVal(t[Len(t)])

\* int(text): surrounding blanks are dropped, one sign may lead, the rest
\* must be one or more digits; anything else raises ValueError.
py_int(t) ==
    LET u == RStrip(LStrip(t))
        signed == u # <<>> /\ Head(u) \in {"-", "+"}
        body == IF signed THEN Tail(u) ELSE u
        valid == body # <<>> /\ \A i \in 1..Len(body) : IsDigit(body[i])
    IN IF ~valid THEN [ok |-> FALSE, val |-> 0]
       ELSE [ok |-> TRUE,
             val |-> IF signed /\ Head(u) = "-" THEN 0 - DigitsValue(body)
                     ELSE DigitsValue(body)]

DefaultTimeoutText == <<"6", "0", "0">>

parse_generation_timeout(env) ==
    LET p == py_int(environ_get(env, DefaultTimeoutText)) IN
    IF ~p.ok THEN 600
    ELSE IF p.val <= 0 THEN 600
    ELSE p.val

\* The module-level int(os.environ.get(...)) of the adapter.
adapter_generation_timeout(env) == py_int(environ_get(env, DefaultTimeoutText))

Modules == {"generate_music_execute", "openrouter_adapter"}

\* A wait with a timeout that is not positive is over before it began.
NoWaits == [join |-> "none", wait_for |-> "none"]
BeginWait(timeout) == IF timeout <= 0 THEN "expired_at_once" ELSE "waiting"

ConfigDefault ==
    /\ env_timeout = Unset
    /\ loaded = Modules
    /\ crashed = FALSE
    /\ DEFAULT_GENERATION_TIMEOUT = parse_generation_timeout(Unset)
    /\ GENERATION_TIMEOUT = adapter_generation_timeout(Unset).val
    /\ waits = NoWaits

\* ----------------------------------------------------------- query result
\* Python values are records of a kind k and a content v; texts are
\* sequences of characters.
PyNull == [k |-> "null", v |-> <<>>]
PyDict == [k |-> "dict", v |-> <<>>]
PyMissing == [k |-> "missing", v |-> <<>>]
PyInt(n) == [k |-> "int", v |-> n]
PyStr(t) == [k |-> "str", v |-> t]
PyList(xs) == [k |-> "list", v |-> xs]

ParseFail == [ok |-> FALSE, val |-> PyNull, next |-> 0]

\* Index of the first character at or after i that is not a digit.
RECURSIVE DigitsEnd(_, _)
DigitsEnd(t, i) ==
    IF i <= Len(t) /\ IsDigit(t[i]) THEN DigitsEnd(t, i + 1) ELSE i

\* Index of the first double quote at or after i (0: none).
RECURSIVE QuoteAt(_, _)
QuoteAt(t, i) ==
    IF i > Len(t) THEN 0
    ELSE IF t[i] = "\"" THEN i
    ELSE QuoteAt(t, i + 1)

\* json.loads restricted to numbers, strings and arrays, with no blanks:
\* ParseValue reads one value of text t from index i on.
RECURSIVE ParseValue(_, _)
RECURSIVE ParseElems(_, _, _)
ParseValue(t, i) ==
    IF i > Len(t) THEN ParseFail
    ELSE IF IsDigit(t[i])
    THEN LET e == IF t[i] = "0" THEN i + 1 ELSE DigitsEnd(t, i) IN
         [ok |-> TRUE, val |-> PyInt(DigitsValue(SubSeq(t, i, e - 1))), next |-> e]
    ELSE IF t[i] = "\""
    THEN LET e == QuoteAt(t, i + 1) IN
         IF e = 0 THEN ParseFail
         ELSE [ok |-> TRUE, val |-> PyStr(SubSeq(t, i + 1, e - 1)), next |-> e + 1]
    ELSE IF t[i] = "["
    THEN IF i + 1 <= Len(t) /\ t[i + 1] = "]"
         THEN [ok |-> TRUE, val |-> PyList(<<>>), next |-> i + 2]
         ELSE ParseElems(t, i + 1, <<>>)
    ELSE ParseFail

ParseElems(t, i, acc) ==
    LET p == ParseValue(t, i) IN
    IF ~p.ok \/ p.next > Len(t) THEN ParseFail
    ELSE IF t[p.next] = "," THEN ParseElems(t, p.next + 1, Append(acc, p.val))
    ELSE IF t[p.next] = "]"
    THEN [ok |-> TRUE, val |-> PyList(Append(acc, p.val)), next |-> p.next + 1]
    ELSE ParseFail

\* json.loads(x): a TypeError for anything that is no text, a
\* JSONDecodeError for a text that is no JSON document.
json_loads(x) ==
    IF x.k # "str" THEN [ok |-> FALSE, val |-> PyNull]
    ELSE LET p == ParseValue(x.v, 1) IN
         IF p.ok /\ p.next = Len(x.v) + 1 THEN [ok |-> TRUE, val |-> p.val]
         ELSE [ok |-> FALSE, val |-> PyNull]

\* body.get("task_id_list", "[]")
body_get_task_id_list(raw) ==
    IF raw.k = "missing" THEN PyStr(<<"[", "]">>) ELSE raw

parse_task_id_list(raw) ==
    IF raw.k = "list" THEN raw
    ELSE LET p == json_loads(raw) IN
         IF p.ok THEN p.val ELSE PyList(<<>>)

\* The job the query knows, an id no tier knows, and what a cache entry
\* decodes to: nothing stored, a text json.loads rejects, an empty array, an
\* array whose first element is no object, or an array of objects whose
\* first one may carry status and create_time.
KnownId == PyStr(<<"a">>)
UnknownId == PyStr(<<"c">>)
TASK_TIMEOUT_SECONDS == 3600
QueryTime == 3601
CreateTimes == {0, 1, 2}
CacheStatuses == {0, 1, 2}

\* status_type / create_time_type tell what JSON value the field holds: a
\* number, a text (status_text holds it), a null or an array.
NoEntry ==
    [kind |-> "none", has_status |-> FALSE, status |-> 0, has_create_time |-> FALSE,
     create_time |-> 0, status_type |-> "int", status_text |-> <<>>,
     create_time_type |-> "int"]
CorruptEntry(kind) ==
    [kind |-> kind, has_status |-> FALSE, status |-> 0, has_create_time |-> FALSE,
     create_time |-> 0, status_type |-> "int", status_text |-> <<>>,
     create_time_type |-> "int"]
ItemsEntry(has_status, status, has_ct, ct) ==
    [kind |-> "items", has_status |-> has_status, status |-> status,
     has_create_time |-> has_ct, create_time |-> ct, status_type |-> "int",
     status_text |-> <<>>, create_time_type |-> "int"]
TypedEntry(status_type, status, status_text, ct_type, ct) ==
    [kind |-> "items", has_status |-> TRUE, status |-> status,
     has_create_time |-> TRUE, create_time |-> ct, status_type |-> status_type,
     status_text |-> status_text, create_time_type |-> ct_type]
CorruptKinds == {"unparsable", "empty_list", "first_not_dict"}
CacheEntries ==
    {NoEntry}
    \cup {CorruptEntry(kd) : kd \in CorruptKinds}
    \cup {ItemsEntry(TRUE, st, TRUE, ct) : st \in CacheStatuses, ct \in CreateTimes}
    \cup {ItemsEntry(FALSE, 0, TRUE, ct) : ct \in CreateTimes}
    \cup {ItemsEntry(TRUE, st, FALSE, 0) : st \in CacheStatuses}

\* Entries whose first element carries a status or a create_time of another
\* type than the number the writers put there.
StatusTexts == {<<"1">>, <<"x">>}
WrongTypedEntries ==
    {TypedEntry("str", 0, tx, "int", ct) : tx \in StatusTexts, ct \in CreateTimes}
    \cup {TypedEntry("list", 0, <<>>, "int", ct) : ct \in CreateTimes}
    \cup {TypedEntry("int", st, <<>>, ctt, 0) : st \in CacheStatuses, ctt \in {"str", "null"}}

\* The records a job can have in the store.
OneJob == [j \in {1} |-> AbsentRecord]
QueryRecords ==
    LET q == create(OneJob, 1)
        r == mark_running(q, 1)
    IN { AbsentRecord, q[1], r[1] }
       \cup { mark_succeeded(r, 1, v)[1] : v \in Results }
       \cup { mark_failed(r, 1, Traceback(e))[1] : e \in Errors }

\* local_cache.get(result_key) and store.get(task_id)
cache_get(entry, task_id) == IF task_id = KnownId THEN entry ELSE NoEntry
store_get(record, task_id) == IF task_id = KnownId THEN record ELSE AbsentRecord

\* A response item; progress_text is NoText when the item has no such key,
\* the log text handed in, or the progress_text of the record.
NoText == [k |-> "no_key", v |-> ""]
LogText(log) == [k |-> "log", v |-> log]
RecordText == [k |-> "record.progress_text", v |-> ""]
LogMessages == {"", "step 3/8"}

Item(task_id, status, result, progress_text) ==
    [task_id |-> task_id, status |-> status, result |-> result,
     progress_text |-> progress_text]

CacheData(entry) == [k |-> "cache_data", v |-> entry]
StoreJson(record) ==
    [k |-> "store_json", v |-> <<map_status(record.status), record.result, record.error>>]
EmptyListText == [k |-> "text", v |-> <<"[", "]">>]

\* An exception that leaves the builder of one item.
Raises(err) == [raises |-> err]
IsRaise(x) == "raises" \in DOMAIN x

\* int(status) if status is not None else 1
int_status(entry) ==
    IF ~entry.has_status THEN [ok |-> TRUE, val |-> 1, err |-> NONE]
    ELSE IF entry.status_type = "int" THEN [ok |-> TRUE, val |-> entry.status, err |-> NONE]
    ELSE IF entry.status_type = "str"
    THEN LET p == py_int(entry.status_text) IN
         IF p.ok THEN [ok |-> TRUE, val |-> p.val, err |-> NONE]
         ELSE [ok |-> FALSE, val |-> 0, err |-> "ValueError"]
    ELSE [ok |-> FALSE, val |-> 0, err |-> "TypeError"]

\* status == 0
StatusIsZero(entry) == entry.has_status /\ entry.status_type = "int" /\ entry.status = 0

build_running_result_payload_no_timeout(task_id, entry, current_time, log) ==
    IF entry.kind # "items" THEN Item(task_id, 2, CacheData(entry), NoText)
    ELSE IF ~int_status(entry).ok THEN Raises(int_status(entry).err)
    ELSE Item(task_id, int_status(entry).val, CacheData(entry), LogText(log))

\* _build_running_result_payload: an entry that is no non-empty array of
\* objects gives status 2; current_time - create_time is evaluated only when
\* status == 0 and raises TypeError for a create_time that is no number;
\* int(status) raises for a status that is no number and no numeric text.
build_running_result_payload(task_id, entry, current_time, log) ==
    IF entry.kind # "items" THEN Item(task_id, 2, CacheData(entry), NoText)
    ELSE IF StatusIsZero(entry) /\ entry.has_create_time /\ entry.create_time_type # "int"
    THEN Raises("TypeError")
    ELSE LET create_time == IF entry.has_create_time THEN entry.create_time ELSE 0 IN
         IF StatusIsZero(entry) /\ (current_time - create_time) > TASK_TIMEOUT_SECONDS
         THEN Item(task_id, 2, CacheData(entry), NoText)
         ELSE IF ~int_status(entry).ok THEN Raises(int_status(entry).err)
         ELSE Item(task_id, int_status(entry).val, CacheData(entry), LogText(log))

build_store_result_payload_record_text(task_id, record, log) ==
    Item(task_id, map_status(record.status), StoreJson(record), RecordText)

\* _build_store_result_payload: the global log text while the status code is
\* 0, the record's own progress_text otherwise.
build_store_result_payload(task_id, record, log) ==
    Item(task_id, map_status(record.status), StoreJson(record),
         IF map_status(record.status) = 0 THEN LogText(log) ELSE RecordText)

\* One pass of the loop of collect_query_results.
query_item_store_first(task_id, backend, entry, record, current_time, log) ==
    IF store_get(record, task_id).status # "absent"
    THEN build_store_result_payload(task_id, store_get(record, task_id), log)
    ELSE IF backend /\ cache_get(entry, task_id).kind # "none"
    THEN build_running_result_payload(task_id, cache_get(entry, task_id), current_time, log)
    ELSE Item(task_id, 0, EmptyListText, NoText)

query_item_unknown_fails(task_id, backend, entry, record, current_time, log) ==
    IF backend /\ cache_get(entry, task_id).kind # "none"
    THEN build_running_result_payload(task_id, cache_get(entry, task_id), current_time, log)
    ELSE IF store_get(record, task_id).status # "absent"
    THEN build_store_result_payload(task_id, store_get(record, task_id), log)
    ELSE Item(task_id, 2, EmptyListText, NoText)

query_item(task_id, backend, entry, record, current_time, log) ==
    IF backend /\ cache_get(entry, task_id).kind # "none"
    THEN build_running_result_payload(task_id, cache_get(entry, task_id), current_time, log)
    ELSE IF store_get(record, task_id).status # "absent"
    THEN build_store_result_payload(task_id, store_get(record, task_id), log)
    ELSE Item(task_id, 0, EmptyListText, NoText)

\* for task_id in task_ids: the elements of a list, the characters of a
\* text; a number or None cannot be iterated (TypeError).
Iterable(x) == x.k \in {"list", "str"}
IterItems(x) ==
    IF x.k = "list" THEN x.v
    ELSE [i \in 1..Len(x.v) |-> PyStr(<<x.v[i]>>)]

RECURSIVE Dedup(_)
Dedup(xs) ==
    IF xs = <<>> THEN <<>>
    ELSE LET r == Dedup(SubSeq(xs, 1, Len(xs) - 1)) IN
         IF \E i \in 1..Len(r) : r[i] = xs[Len(xs)] THEN r ELSE Append(r, xs[Len(xs)])

Raised(e) == [ok |-> FALSE, err |-> e, items |-> <<>>]
Returned(items) == [ok |-> TRUE, err |-> NONE, items |-> items]

\* The loop over the ids: the first item whose builder raises ends the call
\* with that exception, the items built so far are lost.
LoopOutcome(its) ==
    LET bad == {i \in 1..Len(its) : IsRaise(its[i])} IN
    IF bad = {} THEN Returned(its)
    ELSE Raised(its[CHOOSE i \in bad : \A k \in bad : i <= k].raises)

collect_query_results_dedup(ids, backend, entry, record, current_time, log) ==
    IF ~Iterable(ids) THEN Raised("TypeError")
    ELSE LET xs == Dedup(IterItems(ids)) IN
         LoopOutcome([i \in 1..Len(xs) |->
                        query_item(xs[i], backend, entry, record, current_time, log)])

collect_query_results(ids, backend, entry, record, current_time, log) ==
    IF ~Iterable(ids) THEN Raised("TypeError")
    ELSE LET xs == IterItems(ids) IN
         LoopOutcome([i \in 1..Len(xs) |->
                        query_item(xs[i], backend, entry, record, current_time, log)])

\* The inputs of a query: a list of ids, a text, or another JSON value.
QueryTextAlphabet == {"[", "]", ",", "7", "\""}
QueryTexts == UNION {[1..n -> QueryTextAlphabet] : n \in 0..MaxTextLen}
IdLists == UNION {[1..n -> {KnownId, UnknownId}] : n \in 0..MaxIds}
RawInputs ==
    {PyMissing, PyNull, PyDict, PyInt(7)}
    \cup {PyList(xs) : xs \in IdLists}
    \cup {PyStr(t) : t \in QueryTexts}

NoResult == Raised(NONE)

QueryIdle ==
    /\ task_id_list_raw = PyMissing
    /\ qbackend = TRUE
    /\ qcache = NoEntry
    /\ qrecord = AbsentRecord
    /\ qlog = ""
    /\ qpc = "idle"
    /\ task_ids = PyNull
    /\ data_list = NoResult

\* Exact fractions n/d with d > 0, in lowest terms, for the float values of
\* the progress callbacks.
RECURSIVE Gcd(_, _)
Gcd(a, b) == IF b = 0 THEN a ELSE Gcd(b, a % b)
Abs(n) == IF n < 0 THEN 0 - n ELSE n
Frac(n, d) ==
    LET g == Gcd(Abs(n), d) IN
    IF n = 0 THEN [n |-> 0, d |-> 1] ELSE [n |-> n \div g, d |-> d \div g]
FSub(a, b) == Frac(a.n * b.d - b.n * a.d, a.d * b.d)
FAdd(a, b) == Frac(a.n * b.d + b.n * a.d, a.d * b.d)
FMul(a, b) == Frac(a.n * b.n, a.d * b.d)
FDiv(a, b) == Frac(a.n * b.d, a.d * b.n)
FLe(a, b) == a.n * b.d <= b.n * a.d
FMin(a, b) == IF FLe(a, b) THEN a ELSE b
FMax(a, b) == IF FLe(a, b) THEN b ELSE a
Zero == Frac(0, 1)
One == Frac(1, 1)

\* last_progress = {"value": -1.0, "time": 0.0, "stage": ""}
NoProgress == [value |-> Frac(-1, 1), time |-> 0, stage |-> ""]
NoBase == [seen |-> FALSE, value |-> Zero]
NoUpdate == [value |-> Zero, stage |-> "", time |-> 0, run |-> 0, raw |-> Zero, rising |-> TRUE]
NoPayload == [progress |-> Zero, stage |-> "none"]
QueuedFields == [progress |-> Zero, stage |-> "queued", progress_text |-> ""]
StartTime == 8

\* No job has reported progress.
ProgressIdle ==
    /\ last_progress = NoProgress
    /\ now = StartTime
    /\ progress_fields = QueuedFields
    /\ progress_payload = NoPayload
    /\ sequential_runs = 1
    /\ run_idx = 0
    /\ slice_base = NoBase
    /\ updates = 0
    /\ offered = NoUpdate
    /\ forwarded = <<>>

\* Python values of the model-switch helper: None, a dict of init parameters
\* (lm_model_path is NONE when the key is missing), and something else.
PyNone == [kind |-> "none"]
NotADict == [kind |-> "other"]
EmptyDict == [kind |-> "dict", empty |-> TRUE]
Params(path, dir, backend) ==
    [kind |-> "dict", empty |-> FALSE, lm_model_path |-> path, checkpoint_dir |-> dir,
     backend |-> backend]
NoFrame == [pc |-> "idle", ok_switched |-> FALSE, restore_params |-> PyNone]

\* temporary_llm_model has not been entered.
LlmIdle ==
    /\ lm_model_path = [set |-> FALSE, raw |-> <<>>]
    /\ llm = [present |-> FALSE, llm_initialized |-> FALSE, last_init_params |-> PyNone,
              calls |-> <<>>]
    /\ init_lock = [present |-> FALSE, held |-> FALSE]
    /\ app_llm = [initialized |-> FALSE, error |-> NONE]
    /\ tlm = NoFrame
    /\ section_exc = NONE
    /\ caller_sees = NONE

\* No job has started its progress estimator.
NoEstimator == [pc |-> "none", ticks |-> 0]
EstIdle ==
    /\ estimator = NoEstimator
    /\ stop_event = FALSE
    /\ bpc = "none"
    /\ guarded_out = NoOutcome
    /\ cache_writes = <<>>

\* No cache payload has been built.
StampIdle ==
    /\ job_record = [exists |-> FALSE, created_at |-> 0]
    /\ clock = 0
    /\ stamped = <<>>

\* No event stream is open.
StreamIdle ==
    /\ unpublished = <<>>
    /\ chan = <<>>
    /\ consumed = <<>>
    /\ sse = <<>>
    /\ gpc = "none"
    /\ heartbeats = 0

LateIdle == LlmIdle /\ EstIdle /\ StampIdle /\ StreamIdle

\* The cleanup loop has just been started.
CleanupIdle ==
    /\ age = [j \in Jobs |-> 0]
    /\ lpc = "sleeping"
    /\ intervals = 0
    /\ sweeps = 0
    /\ sweep_errors = 0
    /\ last_removed = 0
    /\ cleanup_log = <<>>

\* No cache writer has been called.
NoWrite == [fn |-> "none", status |-> "", result |-> NONE, payload |-> NoEntry]
WriteIdle == last_write = NoWrite

\* Everything beside the job pipeline is at rest.
SideIdle == ConfigDefault /\ QueryIdle /\ WriteIdle /\ CleanupIdle /\ ProgressIdle /\ LateIdle

Init == ServerInit /\ SideIdle

\* ------------------------------------------------------------- submission
QueueFull(q) == Len(q) >= QUEUE_MAXSIZE

Enqueue(j) ==
    /\ job_queue' = Append(job_queue, j)
    /\ enqOrder' = Append(enqOrder, j)

\* chat_completions answers 429 when the capacity check finds the queue full.
SubmitRejectedAfterCreate ==
    /\ QueueFull(job_queue)
    /\ rejected < MaxRejected
    /\ nextJob <= MaxJobs
    /\ rejected' = rejected + 1
    /\ store' = create(store, nextJob)
    /\ nextJob' = nextJob + 1
    /\ UNCHANGED <<cache, local_cache, sideVars, sub, mode, queueVars, notifyVars, workerVars, genVars>>

SubmitRejected ==
    /\ QueueFull(job_queue)
    /\ rejected < MaxRejected
    /\ rejected' = rejected + 1
    /\ UNCHANGED <<store, cache, local_cache, sideVars, nextJob, sub, mode, queueVars, notifyVars,
                   workerVars, genVars>>

SubmitDirectNoPending(m) ==
    /\ ~QueueFull(job_queue)
    /\ nextJob <= MaxJobs
    /\ store' = create(store, nextJob)
    /\ mode' = [mode EXCEPT ![nextJob] = m]
    /\ sub' = [sub EXCEPT ![nextJob] = "enqueued"]
    /\ Enqueue(nextJob)
    /\ nextJob' = nextJob + 1
    /\ UNCHANGED <<cache, local_cache, sideVars, rejected, pending_ids, job_temp_files,
                   notifyVars, workerVars, genVars>>

\* chat_completions of a request without audio input, which has no suspension
\* between the capacity check and put(): the record is created, the
\* notification slot is attached, the id is appended to pending_ids and the
\* pair is enqueued.
SubmitDirect(m) ==
    /\ ~QueueFull(job_queue)
    /\ nextJob <= MaxJobs
    /\ store' = create(store, nextJob)
    /\ mode' = [mode EXCEPT ![nextJob] = m]
    /\ sub' = [sub EXCEPT ![nextJob] = "enqueued"]
    /\ pending_ids' = Append(pending_ids, nextJob)
    /\ Enqueue(nextJob)
    /\ nextJob' = nextJob + 1
    /\ UNCHANGED <<cache, local_cache, sideVars, rejected, job_temp_files, notifyVars, workerVars,
                   genVars>>

\* chat_completions of a cover request with source audio: after the capacity
\* check, create() and the temp-file registration the handler suspends in
\* asyncio.to_thread(convert_src_audio_to_codes).
SubmitBegin ==
    /\ ~QueueFull(job_queue)
    /\ nextJob <= MaxJobs
    /\ store' = create(store, nextJob)
    /\ job_temp_files' = job_temp_files \cup {nextJob}
    /\ sub' = [sub EXCEPT ![nextJob] = "transcoding"]
    /\ nextJob' = nextJob + 1
    /\ UNCHANGED <<cache, local_cache, sideVars, mode, rejected, job_queue, pending_ids, enqOrder,
                   notifyVars, workerVars, genVars>>

\* The handler resumes: attaches the slot, appends to pending_ids and awaits
\* job_queue.put(), which enqueues at once only when the queue has room.
SubmitResume(j, m) ==
    /\ sub[j] = "transcoding"
    /\ mode' = [mode EXCEPT ![j] = m]
    /\ pending_ids' = Append(pending_ids, j)
    /\ IF QueueFull(job_queue)
       THEN /\ sub' = [sub EXCEPT ![j] = "blocked"]
            /\ UNCHANGED <<job_queue, enqOrder>>
       ELSE /\ sub' = [sub EXCEPT ![j] = "enqueued"]
            /\ Enqueue(j)
    /\ UNCHANGED <<store, cache, local_cache, sideVars, nextJob, rejected, job_temp_files,
                   notifyVars, workerVars, genVars>>

\* A put() that waited for room is woken once the queue is no longer full.
PutUnblock(j) ==
    /\ sub[j] = "blocked"
    /\ ~QueueFull(job_queue)
    /\ sub' = [sub EXCEPT ![j] = "enqueued"]
    /\ Enqueue(j)
    /\ UNCHANGED <<store, cache, local_cache, sideVars, nextJob, mode, rejected, pending_ids,
                   job_temp_files, notifyVars, workerVars, genVars>>

\* The waiter of a job that is still queued or running leaves: wait_for on
\* the completion event times out (504), or the client of the event stream
\* disconnects and the generator is closed.  Nothing else is touched.
WaiterGivesUpAndCancels(j) ==
    /\ sub[j] = "enqueued"
    /\ acks[j] = 0
    /\ j \notin gaveUp
    /\ Cardinality(gaveUp) < MaxGiveUps
    /\ gaveUp' = gaveUp \cup {j}
    /\ job_queue' = SelectSeq(job_queue, LAMBDA x : x # j)
    /\ UNCHANGED <<store, cache, local_cache, sideVars, submitVars, pending_ids,
                   job_temp_files, enqOrder, progress_queue, done_event, workerVars, genVars>>

WaiterGivesUp(j) ==
    /\ sub[j] = "enqueued"
    /\ acks[j] = 0
    /\ j \notin gaveUp
    /\ Cardinality(gaveUp) < MaxGiveUps
    /\ gaveUp' = gaveUp \cup {j}
    /\ UNCHANGED <<store, cache, local_cache, sideVars, submitVars, queueVars,
                   progress_queue, done_event, workerVars, genVars>>

\* ------------------------------------------------------ guarded executor
\* _run_generate_music_service_with_progress after gen_thread.join(timeout):
\* alive is gen_thread.is_alive(); st/val are what _service_target left in
\* _result / _error.
GuardedOutcomeSwallow(alive, st, val) ==
    IF alive THEN [kind |-> "raise", val |-> TimeoutErr]
    ELSE IF st = "returned" THEN [kind |-> "value", val |-> val]
    ELSE [kind |-> "raise", val |-> NoOutputsErr]

GuardedOutcome(alive, st, val) ==
    IF alive THEN [kind |-> "raise", val |-> TimeoutErr]
    ELSE IF st = "raised" THEN [kind |-> "raise", val |-> val]
    ELSE IF st = "returned" THEN [kind |-> "value", val |-> val]
    ELSE [kind |-> "raise", val |-> NoOutputsErr]

\* ------------------------------------------------------------- job body
\* _run_one_job up to the first cache write: _ensure_initialized passes
\* (the models are loaded before the server accepts requests), mark_running.
RunOneJobHeadSkip(s, j) == s

RunOneJobHead(s, j) == mark_running(s, j)

\* _run_one_job after run_in_executor: out is what _blocking_generate
\* returned or raised; ok1 / ok2 tell whether the "succeeded" / "failed"
\* cache write goes through (local_cache.set may raise).  raised is the
\* exception that leaves _run_one_job, late tells that mark_failed was called
\* on a record that was already terminal.
RunOneJobTail(s, c, present, j, out, ok1, ok2) ==
    IF out.kind = "value"
    THEN LET s1 == mark_succeeded(s, j, out.val) IN
         IF ~present \/ ok1
         THEN [store |-> s1, cache |-> update_local_cache(c, present, j, "succeeded"),
               raised |-> NONE, late |-> FALSE]
         ELSE LET s2 == mark_failed(s1, j, Traceback(CacheErr)) IN
              IF ok2
              THEN [store |-> s2, cache |-> update_local_cache(c, present, j, "failed"),
                    raised |-> NONE, late |-> s1[j].status \in Terminal]
              ELSE [store |-> s2, cache |-> c,
                    raised |-> CacheErr, late |-> s1[j].status \in Terminal]
    ELSE LET s1 == mark_failed(s, j, Traceback(out.val)) IN
         IF ~present \/ ok2
         THEN [store |-> s1, cache |-> update_local_cache(c, present, j, "failed"),
               raised |-> NONE, late |-> FALSE]
         ELSE [store |-> s1, cache |-> c, raised |-> CacheErr, late |-> FALSE]

\* ---------------------------------------------------------- queue worker
RECURSIVE RemoveFirst(_, _)
RemoveFirst(q, j) ==
    IF q = <<>> THEN <<>>
    ELSE IF Head(q) = j THEN Tail(q)
    ELSE <<Head(q)>> \o RemoveFirst(Tail(q), j)

Msg(type, content) == [type |-> type, content |-> content]

\* process_queue_item after run_one_job: raised is the exception the job
\* body raised (NONE: it returned).  The outcome message is read off the
\* record; an exception is recorded with mark_failed(job_id, str(exc)).
ProcessQueueItemTail(s, pq, de, m, j, raised) ==
    LET s1 == IF raised = NONE THEN s ELSE mark_failed(s, j, StrExc(raised))
        outcome == IF raised # NONE THEN <<Msg("error", StrExc(raised))>>
                   ELSE IF s[j].status = "succeeded" THEN <<Msg("result", s[j].result)>>
                   ELSE IF s[j].status = "failed" THEN <<Msg("error", s[j].error)>>
                   ELSE <<>>
    IN [store |-> s1,
        pq |-> IF m = "stream"
               THEN [pq EXCEPT ![j] = @ \o outcome \o <<Msg("done", NONE)>>]
               ELSE pq,
        de |-> IF m = "wait" THEN [de EXCEPT ![j] = TRUE] ELSE de,
        propagates |-> FALSE]

\* _cleanup_job_temp_files: the registry entry of the job is popped and its
\* files are removed.
cleanup_job_temp_files_keeps_entry(registry, j) == registry

cleanup_job_temp_files(registry, j) == registry \ {j}

\* The rest of process_queue_item for job j: notification, then the finally
\* block (pending_ids removal, _cleanup_job_temp_files, task_done), and the
\* worker loops back to job_queue.get().
CompleteItem(j, s, c, raised, late) ==
    LET p == ProcessQueueItemTail(s, progress_queue, done_event, mode[j], j, raised) IN
    /\ store' = p.store
    /\ cache' = c
    /\ progress_queue' = p.pq
    /\ done_event' = p.de
    /\ UNCHANGED gaveUp
    /\ pending_ids' = RemoveFirst(pending_ids, j)
    /\ job_temp_files' = cleanup_job_temp_files(job_temp_files, j)
    /\ cleanups' = [cleanups EXCEPT ![j] = @ + 1]
    /\ acks' = [acks EXCEPT ![j] = @ + 1]
    /\ bodyRaised' = [bodyRaised EXCEPT ![j] = raised]
    /\ markedTerminal' = markedTerminal \cup
           (IF late \/ (raised # NONE /\ s[j].status \in Terminal) THEN {j} ELSE {})
    /\ wpc' = IF p.propagates THEN "dead" ELSE "idle"
    /\ cur' = 0
    /\ epc' = "none"
    /\ bres' = NoOutcome
    /\ joinSaw' = NoJoin

WorkerReadyAlways == TRUE

WorkerReady == wpc = "idle"

NextItemLast(q) == q[Len(q)]

NextItem(q) == Head(q)

\* _queue_worker takes the next pair; _run_one_job marks it running, writes
\* the first progress payload and hands _blocking_generate to the executor.
Dequeue ==
    /\ WorkerReady
    /\ job_queue # <<>>
    /\ LET j == NextItem(job_queue) IN
       /\ job_queue' = RemoveFirst(job_queue, j)
       /\ store' = RunOneJobHead(store, j)
       /\ startOrder' = Append(startOrder, j)
       /\ cache' = update_local_cache_progress(cache, local_cache, j)
       /\ wpc' = "executing"
       /\ cur' = j
       /\ epc' = "pre"
    /\ UNCHANGED <<local_cache, sideVars, submitVars, pending_ids, job_temp_files, enqOrder,
                   notifyVars, bres, joinSaw, bodyRaised, markedTerminal, acks, cleanups, genVars>>

\* The same, but the first progress write raises: the exception leaves
\* _run_one_job before the executor is used and the worker handles it.
DequeueBodyRaises ==
    /\ WorkerReady
    /\ job_queue # <<>>
    /\ local_cache
    /\ LET j == NextItem(job_queue) IN
       /\ job_queue' = RemoveFirst(job_queue, j)
       /\ startOrder' = Append(startOrder, j)
       /\ CompleteItem(j, RunOneJobHead(store, j), cache, CacheErr, FALSE)
    /\ UNCHANGED <<local_cache, sideVars, submitVars, enqOrder, genVars>>

\* _blocking_generate fails before any guarded call (audio encoding or
\* analysis failed) or returns without one (analysis-only requests).
BlockingGenerateEarly(out) ==
    /\ epc = "pre"
    /\ epc' = "post"
    /\ bres' = out
    /\ UNCHANGED <<store, cache, local_cache, sideVars, submitVars, queueVars, notifyVars,
                   wpc, cur, joinSaw, startOrder, bodyRaised, markedTerminal, acks, cleanups, genVars>>

\* gen_thread.start(): service_generate begins on the GPU.
StartGuardedCall ==
    /\ epc = "pre"
    /\ epc' = "joining"
    /\ gen' = [gen EXCEPT ![cur] = [st |-> "running", val |-> NONE]]
    /\ UNCHANGED <<store, cache, local_cache, sideVars, submitVars, queueVars, notifyVars,
                   wpc, cur, bres, joinSaw, startOrder, bodyRaised, markedTerminal, acks, cleanups,
                   abandoned>>

\* service_generate returns or raises in its thread and leaves the outcome
\* in _result / _error for the joining caller.
ServiceFinishes(j, st, val) ==
    /\ gen[j].st = "running"
    /\ j \notin abandoned
    /\ gen' = [gen EXCEPT ![j] = [st |-> st, val |-> val]]
    /\ UNCHANGED <<store, cache, local_cache, sideVars, submitVars, queueVars, notifyVars,
                   workerVars, abandoned>>

\* An abandoned call that would publish its late result into its job's record.
OrphanFinishesRecords(j) ==
    /\ gen[j].st = "running"
    /\ j \in abandoned
    /\ gen' = [gen EXCEPT ![j] = NoThread]
    /\ abandoned' = abandoned \ {j}
    /\ store' = [store EXCEPT ![j].status = "succeeded", ![j].result = "res_a",
                              ![j].error = NONE]
    /\ UNCHANGED <<cache, local_cache, sideVars, submitVars, queueVars, notifyVars, workerVars>>

\* An abandoned service_generate ends at last: what it leaves in _result /
\* _error is never read and the thread is gone.
OrphanFinishes(j) ==
    /\ gen[j].st = "running"
    /\ j \in abandoned
    /\ gen' = [gen EXCEPT ![j] = NoThread]
    /\ abandoned' = abandoned \ {j}
    /\ UNCHANGED <<store, cache, local_cache, sideVars, submitVars, queueVars, notifyVars,
                   workerVars>>

\* join() returned because the thread ended.
JoinFinished ==
    /\ epc = "joining"
    /\ gen[cur].st \in {"returned", "raised"}
    /\ epc' = "post"
    /\ bres' = GuardedOutcome(FALSE, gen[cur].st, gen[cur].val)
    /\ joinSaw' = [alive |-> FALSE, st |-> gen[cur].st, val |-> gen[cur].val]
    /\ UNCHANGED <<store, cache, local_cache, sideVars, submitVars, queueVars, notifyVars,
                   wpc, cur, startOrder, bodyRaised, markedTerminal, acks, cleanups, genVars>>

\* A join() without a deadline keeps waiting while the thread is alive.
JoinWithoutDeadline ==
    /\ epc = "joining"
    /\ gen[cur].st = "running"
    /\ UNCHANGED vars

\* join() returned at the deadline and the thread is still alive: the call is
\* abandoned, not stopped.
JoinTimeout ==
    /\ epc = "joining"
    /\ gen[cur].st = "running"
    /\ epc' = "post"
    /\ bres' = GuardedOutcome(TRUE, gen[cur].st, gen[cur].val)
    /\ joinSaw' = [alive |-> TRUE, st |-> gen[cur].st, val |-> gen[cur].val]
    /\ abandoned' = abandoned \cup {cur}
    /\ UNCHANGED <<store, cache, local_cache, sideVars, submitVars, queueVars, notifyVars,
                   wpc, cur, startOrder, bodyRaised, markedTerminal, acks, cleanups, gen>>

\* run_in_executor completes: _run_one_job records the outcome and returns
\* or raises, and process_queue_item finishes the item.
FinishJob(ok1, ok2) ==
    /\ wpc = "executing"
    /\ epc = "post"
    /\ LET t == RunOneJobTail(store, cache, local_cache, cur, bres, ok1, ok2) IN
       CompleteItem(cur, t.store, t.cache, t.raised, t.late)
    /\ gen' = [gen EXCEPT ![cur] = IF @.st \in {"returned", "raised"} THEN NoThread ELSE @]
    /\ UNCHANGED <<local_cache, sideVars, submitVars, job_queue, enqOrder, startOrder, abandoned>>

Modes == {"stream", "wait"}

Next ==
    \/ SubmitRejected
    \/ \E m \in Modes : SubmitDirect(m)
    \/ SubmitBegin
    \/ \E j \in Jobs, m \in Modes : SubmitResume(j, m)
    \/ \E j \in Jobs : PutUnblock(j)
    \/ Dequeue
    \/ DequeueBodyRaises
    \/ \E v \in Results : BlockingGenerateEarly([kind |-> "value", val |-> v])
    \/ \E e \in Errors : BlockingGenerateEarly([kind |-> "raise", val |-> e])
    \/ StartGuardedCall
    \/ \E j \in Jobs, v \in Results : ServiceFinishes(j, "returned", v)
    \/ \E j \in Jobs, e \in Errors : ServiceFinishes(j, "raised", e)
    \/ \E j \in Jobs : OrphanFinishes(j)
    \/ JoinFinished
    \/ JoinTimeout
    \/ \E ok1, ok2 \in BOOLEAN : FinishJob(ok1, ok2)

Spec == Init /\ [][Next]_vars

\* gen_thread.join(timeout) returns when the thread has ended or when the
\* deadline has passed, whichever comes first; nothing is assumed about
\* service_generate ever returning.
GuardSpec == Spec /\ WF_vars(JoinFinished) /\ WF_vars(JoinTimeout)

\* Cover requests (the submissions that register temp files) whose waiters
\* may leave.  The worker
\* task and the executor thread are scheduled: the worker takes the next
\* item when idle, _blocking_generate runs on, join() returns by its deadline
\* and the job body's tail runs.  No fairness is assumed for service_generate,
\* for submissions or for waiters.
CancelNext ==
    \/ SubmitBegin
    \/ \E j \in Jobs, m \in Modes : SubmitResume(j, m)
    \/ \E j \in Jobs : PutUnblock(j)
    \/ \E j \in Jobs : WaiterGivesUp(j)
    \/ Dequeue
    \/ DequeueBodyRaises
    \/ \E v \in Results : BlockingGenerateEarly([kind |-> "value", val |-> v])
    \/ \E e \in Errors : BlockingGenerateEarly([kind |-> "raise", val |-> e])
    \/ StartGuardedCall
    \/ \E j \in Jobs, v \in Results : ServiceFinishes(j, "returned", v)
    \/ \E j \in Jobs, e \in Errors : ServiceFinishes(j, "raised", e)
    \/ \E j \in Jobs : OrphanFinishes(j)
    \/ JoinFinished
    \/ JoinTimeout
    \/ \E ok1, ok2 \in BOOLEAN : FinishJob(ok1, ok2)

CancelSpec ==
    /\ Init
    /\ [][CancelNext]_vars
    /\ WF_vars(Dequeue \/ DequeueBodyRaises)
    /\ WF_vars(StartGuardedCall
                 \/ (\E v \in Results : BlockingGenerateEarly([kind |-> "value", val |-> v]))
                 \/ (\E e \in Errors : BlockingGenerateEarly([kind |-> "raise", val |-> e])))
    /\ WF_vars(JoinFinished)
    /\ WF_vars(JoinTimeout)
    /\ WF_vars(\E ok1, ok2 \in BOOLEAN : FinishJob(ok1, ok2))

\* Direct submissions with a scheduled worker: the worker task takes the
\* next item when idle, the executor thread runs on, join() returns by its
\* deadline and the job body's tail runs.  No fairness is assumed for
\* service_generate or for submissions.
LiveNext ==
    \/ \E m \in Modes : SubmitDirect(m)
    \/ Dequeue
    \/ DequeueBodyRaises
    \/ \E v \in Results : BlockingGenerateEarly([kind |-> "value", val |-> v])
    \/ \E e \in Errors : BlockingGenerateEarly([kind |-> "raise", val |-> e])
    \/ StartGuardedCall
    \/ \E j \in Jobs, v \in Results : ServiceFinishes(j, "returned", v)
    \/ \E j \in Jobs, e \in Errors : ServiceFinishes(j, "raised", e)
    \/ \E j \in Jobs : OrphanFinishes(j)
    \/ JoinFinished
    \/ JoinTimeout
    \/ \E ok1, ok2 \in BOOLEAN : FinishJob(ok1, ok2)

LiveSpec ==
    /\ Init
    /\ [][LiveNext]_vars
    /\ WF_vars(Dequeue \/ DequeueBodyRaises)
    /\ WF_vars(StartGuardedCall
                 \/ (\E v \in Results : BlockingGenerateEarly([kind |-> "value", val |-> v]))
                 \/ (\E e \in Errors : BlockingGenerateEarly([kind |-> "raise", val |-> e])))
    /\ WF_vars(JoinFinished)
    /\ WF_vars(JoinTimeout)
    /\ WF_vars(\E ok1, ok2 \in BOOLEAN : FinishJob(ok1, ok2))

\* ----------------------------------------- start-up with a configured timeout
\* The server before any module is imported, with any value of the setting.
ConfigInit ==
    /\ ServerInit
    /\ env_timeout \in EnvValues
    /\ loaded = {}
    /\ crashed = FALSE
    /\ DEFAULT_GENERATION_TIMEOUT = 0
    /\ GENERATION_TIMEOUT = 0
    /\ waits = NoWaits
    /\ QueryIdle
    /\ WriteIdle
    /\ CleanupIdle
    /\ ProgressIdle
    /\ LateIdle

serverVars == <<store, cache, local_cache, submitVars, queueVars, notifyVars, workerVars,
                genVars>>
configOthers == <<serverVars, queryVars, writeVars, cleanupVars, progressVars, lateVars>>
queryOthers == <<serverVars, configVars, writeVars, cleanupVars, progressVars, lateVars>>

\* Import of generate_music_execute: _DEFAULT_GENERATION_TIMEOUT is computed.
ImportHandler ==
    /\ ~crashed
    /\ "generate_music_execute" \notin loaded
    /\ loaded' = loaded \cup {"generate_music_execute"}
    /\ DEFAULT_GENERATION_TIMEOUT' = parse_generation_timeout(env_timeout)
    /\ UNCHANGED <<configOthers, env_timeout, crashed, GENERATION_TIMEOUT, waits>>

\* Import of openrouter_adapter: GENERATION_TIMEOUT is computed, or the
\* ValueError of int() ends the import.
ImportAdapter ==
    /\ ~crashed
    /\ "openrouter_adapter" \notin loaded
    /\ LET p == adapter_generation_timeout(env_timeout) IN
       IF p.ok
       THEN /\ loaded' = loaded \cup {"openrouter_adapter"}
            /\ GENERATION_TIMEOUT' = p.val
            /\ UNCHANGED crashed
       ELSE /\ crashed' = TRUE
            /\ UNCHANGED <<loaded, GENERATION_TIMEOUT>>
    /\ UNCHANGED <<configOthers, env_timeout, DEFAULT_GENERATION_TIMEOUT, waits>>

\* gen_thread.join(timeout=_DEFAULT_GENERATION_TIMEOUT) on a thread that has
\* just been started.
GuardedJoin ==
    /\ ~crashed
    /\ loaded = Modules
    /\ waits.join = "none"
    /\ waits' = [waits EXCEPT !.join = BeginWait(DEFAULT_GENERATION_TIMEOUT)]
    /\ UNCHANGED <<configOthers, env_timeout, loaded, crashed, DEFAULT_GENERATION_TIMEOUT,
                   GENERATION_TIMEOUT>>

\* asyncio.wait_for(rec.done_event.wait(), timeout=GENERATION_TIMEOUT) on an
\* event that is not set yet.
WaitForDone ==
    /\ ~crashed
    /\ loaded = Modules
    /\ waits.wait_for = "none"
    /\ waits' = [waits EXCEPT !.wait_for = BeginWait(GENERATION_TIMEOUT)]
    /\ UNCHANGED <<configOthers, env_timeout, loaded, crashed, DEFAULT_GENERATION_TIMEOUT,
                   GENERATION_TIMEOUT>>

ConfigNext ==
    \/ ImportHandler
    \/ ImportAdapter
    \/ GuardedJoin
    \/ WaitForDone

ConfigSpec == ConfigInit /\ [][ConfigNext]_vars

\* --------------------------------------------------------- /query_result
\* A query arrives at a server in any state of the cache entry and of the
\* store record of one job, with or without a cache backend.
QueryInit ==
    /\ ServerInit
    /\ ConfigDefault
    /\ task_id_list_raw \in RawInputs
    /\ qbackend \in BOOLEAN
    /\ qcache \in CacheEntries
    /\ qrecord \in QueryRecords
    /\ qlog \in LogMessages
    /\ qpc = "idle"
    /\ task_ids = PyNull
    /\ data_list = NoResult
    /\ WriteIdle
    /\ CleanupIdle
    /\ ProgressIdle
    /\ LateIdle

\* query_result_endpoint: task_ids = parse_task_id_list(body.get(...))
ParseTaskIdList ==
    /\ qpc = "idle"
    /\ task_ids' = parse_task_id_list(body_get_task_id_list(task_id_list_raw))
    /\ qpc' = "parsed"
    /\ UNCHANGED <<queryOthers, task_id_list_raw, qbackend, qcache, qrecord, qlog,
                   data_list>>

\* collect_query_results(task_ids, local_cache, store, ...)
CollectQueryResults ==
    /\ qpc = "parsed"
    /\ data_list' = collect_query_results(task_ids, qbackend, qcache, qrecord, QueryTime, qlog)
    /\ qpc' = "done"
    /\ UNCHANGED <<queryOthers, task_id_list_raw, qbackend, qcache, qrecord, qlog,
                   task_ids>>

QueryNext ==
    \/ ParseTaskIdList
    \/ CollectQueryResults

QuerySpec == QueryInit /\ [][QueryNext]_vars

\* The call query_result_endpoint makes.  A call that passes keyword
\* arguments only binds when every keyword names a parameter and every
\* parameter without a default gets an argument; otherwise it raises
\* TypeError before the body runs.
CollectParameters ==
    {"task_ids", "local_cache", "store", "map_status", "result_key_prefix",
     "task_timeout_seconds", "get_log_last_message"}
RouteKeywords ==
    {"task_ids", "local_cache", "store", "map_status", "result_key_prefix",
     "task_timeout_seconds", "log_last_message"}
BindsCall(keywords, parameters) == keywords = parameters

QueryResultEndpoint ==
    /\ qpc = "parsed"
    /\ data_list' = IF BindsCall(RouteKeywords, CollectParameters)
                    THEN collect_query_results(task_ids, qbackend, qcache, qrecord,
                                               QueryTime, qlog)
                    ELSE Raised("TypeError")
    /\ qpc' = "done"
    /\ UNCHANGED <<queryOthers, task_id_list_raw, qbackend, qcache, qrecord, qlog,
                   task_ids>>

RouteNext ==
    \/ ParseTaskIdList
    \/ QueryResultEndpoint

RouteSpec == QueryInit /\ [][RouteNext]_vars

\* A query for a list of ids at a server whose cache entry may also carry a
\* status or a create_time of a type the writers never produce.
CorruptCacheInit ==
    /\ ServerInit
    /\ ConfigDefault
    /\ task_id_list_raw \in {PyList(xs) : xs \in IdLists}
    /\ qbackend \in BOOLEAN
    /\ qcache \in CacheEntries \cup WrongTypedEntries
    /\ qrecord \in QueryRecords
    /\ qlog \in LogMessages
    /\ qpc = "idle"
    /\ task_ids = PyNull
    /\ data_list = NoResult
    /\ WriteIdle
    /\ CleanupIdle
    /\ ProgressIdle
    /\ LateIdle

CorruptCacheSpec == CorruptCacheInit /\ [][QueryNext]_vars

\* -------------------------------------------------------- cache payloads
\* The first element of the result_data a writer builds.  A result is none,
\* a generation result or a full-analysis result ("Full Hardware Analysis
\* Success"), which is stored as it is: it has no status and no create_time.
ResultShapes == {NONE, "res_a", "analysis"}
WriterStatuses == {"queued", "running", "succeeded", "failed", "paused"}

terminal_result_data_unwrapped(status, result, create_time) ==
    IF status = "succeeded" /\ result = "analysis"
    THEN CorruptEntry("not_a_list")
    ELSE ItemsEntry(TRUE, map_status(status), TRUE, create_time)

terminal_result_data(status, result, create_time) ==
    IF status = "succeeded" /\ result = "analysis"
    THEN ItemsEntry(FALSE, 0, FALSE, 0)
    ELSE ItemsEntry(TRUE, map_status(status), TRUE, create_time)

progress_result_data(create_time) ==
    ItemsEntry(TRUE, map_status("running"), TRUE, create_time)

\* result.get("audio_paths", []) of a generation result: the sample result
\* has two output artifacts.
audio_paths(result) == IF result = "res_a" THEN <<"res_a.0", "res_a.1">> ELSE <<>>

\* The "file" values of the result_data update_local_cache builds, one per
\* element; a full-analysis result is stored as it is and has no such key.
NoFileKey == "no file key"
written_file_paths(status, result) ==
    IF status = "succeeded" /\ result # NONE
    THEN IF result = "analysis" THEN <<NoFileKey>>
         ELSE IF audio_paths(result) # <<>> THEN audio_paths(result)
         ELSE <<"">>
    ELSE <<"">>

\* The "file" values of the result_data _build_store_result_payload builds.
store_file_paths(record) ==
    IF record.result # NONE /\ record.status = "succeeded"
    THEN IF record.result = "analysis" THEN <<NoFileKey>>
         ELSE IF audio_paths(record.result) # <<>> THEN audio_paths(record.result)
         ELSE <<"">>
    ELSE <<"">>

\* A record whose status is none of the four the store hands out.
OddRecord == [AbsentRecord EXCEPT !.status = "paused"]

WriterInit ==
    /\ ServerInit
    /\ ConfigDefault
    /\ task_id_list_raw \in {PyList(<<KnownId>>), PyList(<<UnknownId, KnownId>>)}
    /\ qbackend \in BOOLEAN
    /\ qcache = NoEntry
    /\ qrecord \in QueryRecords \cup {OddRecord}
    /\ qlog \in LogMessages
    /\ qpc = "idle"
    /\ task_ids = PyNull
    /\ data_list = NoResult
    /\ WriteIdle
    /\ CleanupIdle
    /\ ProgressIdle
    /\ LateIdle

writerOthers == <<serverVars, configVars, cleanupVars, progressVars, lateVars>>

\* update_local_cache(local_cache, store, job_id, result, status, ...)
UpdateLocalCache(status, result, create_time) ==
    /\ qpc = "idle"
    /\ LET data == IF qbackend THEN terminal_result_data(status, result, create_time)
                   ELSE NoEntry
       IN /\ qcache' = IF qbackend THEN data ELSE qcache
          /\ last_write' = [fn |-> "update_local_cache", status |-> status,
                            result |-> result, payload |-> data]
    /\ UNCHANGED <<writerOthers, task_id_list_raw, qbackend, qrecord, qlog, qpc, task_ids,
                   data_list>>

\* update_local_cache_progress(local_cache, store, job_id, progress, stage, ...)
UpdateLocalCacheProgress(create_time) ==
    /\ qpc = "idle"
    /\ LET data == IF qbackend THEN progress_result_data(create_time) ELSE NoEntry
       IN /\ qcache' = IF qbackend THEN data ELSE qcache
          /\ last_write' = [fn |-> "update_local_cache_progress", status |-> "running",
                            result |-> NONE, payload |-> data]
    /\ UNCHANGED <<writerOthers, task_id_list_raw, qbackend, qrecord, qlog, qpc, task_ids,
                   data_list>>

\* The entry outlives its ex= time and is gone.
CacheExpires ==
    /\ qpc = "idle"
    /\ qcache # NoEntry
    /\ qcache' = NoEntry
    /\ UNCHANGED <<writerOthers, writeVars, task_id_list_raw, qbackend, qrecord, qlog, qpc,
                   task_ids, data_list>>

WriterNext ==
    \/ \E st \in WriterStatuses, r \in ResultShapes, ct \in CreateTimes :
          UpdateLocalCache(st, r, ct)
    \/ \E ct \in CreateTimes : UpdateLocalCacheProgress(ct)
    \/ CacheExpires
    \/ ParseTaskIdList
    \/ CollectQueryResults

WriterSpec == WriterInit /\ [][WriterNext]_vars

\* ------------------------------------------------------- job-store cleanup
JOB_STORE_CLEANUP_INTERVAL == 300
JOB_STORE_MAX_AGE_SECONDS == 86400

\* _JobStore.cleanup_old_jobs: the terminal records older than the maximum
\* age are removed and counted.
Expired(s, a, j) == s[j].status \in Terminal /\ a[j] > JOB_STORE_MAX_AGE_SECONDS

cleanup_old_jobs_any_status(s, a) ==
    [store |-> [j \in Jobs |->
                  IF s[j].status # "absent" /\ a[j] > JOB_STORE_MAX_AGE_SECONDS
                  THEN AbsentRecord ELSE s[j]],
     count |-> Cardinality({j \in Jobs :
                  s[j].status # "absent" /\ a[j] > JOB_STORE_MAX_AGE_SECONDS})]

cleanup_old_jobs(s, a) ==
    [store |-> [j \in Jobs |-> IF Expired(s, a, j) THEN AbsentRecord ELSE s[j]],
     count |-> Cardinality({j \in Jobs : Expired(s, a, j)})]

\* run_job_store_cleanup_loop, what the loop does with an exception that
\* reaches it: CancelledError ends the loop, anything else is logged and the
\* loop goes back to sleep.
cleanup_loop_after_dies(exc) == IF exc = "CancelledError" THEN "exited" ELSE "dead"

cleanup_loop_after(exc) == IF exc = "CancelledError" THEN "exited" ELSE "sleeping"

\* Records of any status and of ages around the maximum age.
AgeSamples ==
    {JOB_STORE_MAX_AGE_SECONDS - 2 * JOB_STORE_CLEANUP_INTERVAL,
     JOB_STORE_MAX_AGE_SECONDS - JOB_STORE_CLEANUP_INTERVAL,
     JOB_STORE_MAX_AGE_SECONDS}

CleanupInit ==
    /\ store \in [Jobs -> QueryRecords]
    /\ IdlePipeline
    /\ local_cache = TRUE
    /\ ConfigDefault
    /\ QueryIdle
    /\ last_write = NoWrite
    /\ age \in [Jobs -> AgeSamples]
    /\ lpc = "sleeping"
    /\ intervals = 0
    /\ sweeps = 0
    /\ sweep_errors = 0
    /\ last_removed = 0
    /\ cleanup_log = <<>>
    /\ ProgressIdle
    /\ LateIdle

cleanupOthers ==
    <<cache, local_cache, submitVars, queueVars, notifyVars, workerVars, genVars, configVars,
      queryVars, writeVars, progressVars, lateVars>>

\* await sleep_fn(cleanup_interval_seconds) returns.
IntervalElapses ==
    /\ lpc = "sleeping"
    /\ intervals < MaxSweeps
    /\ lpc' = "sweeping"
    /\ intervals' = intervals + 1
    /\ age' = [j \in Jobs |-> age[j] + JOB_STORE_CLEANUP_INTERVAL]
    /\ UNCHANGED <<store, cleanupOthers, sweeps, sweep_errors, last_removed, cleanup_log>>

\* store.cleanup_old_jobs() returns and the count is logged.
SweepReturns ==
    /\ lpc = "sweeping"
    /\ LET r == cleanup_old_jobs(store, age) IN
       /\ store' = r.store
       /\ last_removed' = r.count
       /\ cleanup_log' = Append(cleanup_log, <<"Cleaned up", r.count>>)
    /\ sweeps' = sweeps + 1
    /\ lpc' = "sleeping"
    /\ UNCHANGED <<cleanupOthers, age, intervals, sweep_errors>>

\* store.cleanup_old_jobs() raises.
SweepRaises(e) ==
    /\ lpc = "sweeping"
    /\ sweeps' = sweeps + 1
    /\ sweep_errors' = sweep_errors + 1
    /\ lpc' = cleanup_loop_after(e)
    /\ cleanup_log' = IF cleanup_loop_after(e) = "sleeping"
                      THEN Append(cleanup_log, <<"Job cleanup error", e>>)
                      ELSE cleanup_log
    /\ UNCHANGED <<store, cleanupOthers, age, intervals, last_removed>>

\* cleanup_task.cancel(): CancelledError is raised at the await of the sleep.
CancelCleanupLoop ==
    /\ lpc = "sleeping"
    /\ lpc' = cleanup_loop_after("CancelledError")
    /\ UNCHANGED <<store, cleanupOthers, age, intervals, sweeps, sweep_errors, last_removed,
                   cleanup_log>>

CleanupNext ==
    \/ IntervalElapses
    \/ SweepReturns
    \/ \E e \in Errors : SweepRaises(e)
    \/ CancelCleanupLoop

CleanupSpec == CleanupInit /\ [][CleanupNext]_vars

\* ---------------------------------------------------------------------------
\* Progress reporting of one job (job 1): the throttled callback, the slices
\* of sequential mode, the record's progress fields and the progress payload.
\* ---------------------------------------------------------------------------

Hundredth == Frac(1, 100)
HalfSecond == 2

\* The raw values a callback may receive: one float() rejects (d = 0), 0.5,
\* 0.51 and 1.5.
BadValue == [n |-> 0, d |-> 0]
RawValues == {BadValue, Frac(1, 2), Frac(51, 100), Frac(3, 2)}
Descs == {"", "decoding"}
TimeSteps == {0, 1}

\* max(0.0, min(1.0, float(value))), 0.0 when float() raises.
clamp_value(raw) ==
    IF raw = BadValue THEN Zero ELSE FMax(Zero, FMin(One, raw))

\* stage = desc or last_progress["stage"] or "running"
stage_of(desc, last) ==
    IF desc # "" THEN desc ELSE IF last.stage # "" THEN last.stage ELSE "running"

throttle_passes_always(last, value_f, stage, t) == TRUE

\* The condition under which _progress_cb forwards an update.
throttle_passes(last, value_f, stage, t) ==
    \/ FLe(Hundredth, FSub(value_f, last.value))
    \/ stage # last.stage
    \/ t - last.time >= HalfSecond

\* _JobStore.update_progress: allowed only while running, silently ignored
\* otherwise. The outcome is the record's fields and the exception raised.
update_progress_any_status(status, fields, value_f, stage) ==
    [fields |-> [fields EXCEPT !.progress = value_f, !.stage = stage], raises |-> NONE]

update_progress(status, fields, value_f, stage) ==
    [fields |-> IF status = "running"
                THEN [fields EXCEPT !.progress = value_f, !.stage = stage]
                ELSE fields,
     raises |-> NONE]

\* _JobStore.update_progress_text: progress_text is mutated only while running.
update_progress_text(status, fields, text) ==
    IF status = "running" THEN [fields EXCEPT !.progress_text = text] ELSE fields

DeepAnalysisText == "Starting Deep Analysis..."

\* The progress and stage items of the payload update_progress_cache writes.
progress_payload_of(value_f, stage) == [progress |-> value_f, stage |-> stage]

slice_mapped_unnormalised(base, start, end, value_f) ==
    FAdd(start, FMul(FSub(end, start), value_f))

\* The value the callback of the slice [start, end] hands to _progress_cb,
\* base being the slice's base after this value was seen.
slice_mapped(base, start, end, value_f) ==
    LET norm == IF FLe(value_f, base.value) THEN Zero
                ELSE FMin(One, FDiv(FSub(value_f, base.value), FSub(One, base.value)))
    IN FAdd(start, FMul(FSub(end, start), norm))

slice_base_after(base, value_f) ==
    IF base.seen THEN base ELSE [seen |-> TRUE, value |-> value_f]

slice_start(i, n) == Frac(i, n)
slice_end(i, n) == Frac(i + 1, n)

progressOthers ==
    <<cache, local_cache, submitVars, queueVars, notifyVars, workerVars, genVars, configVars,
      queryVars, writeVars, cleanupVars, lateVars>>

\* One job, in any status, about to report progress in one run or in
\* sequential_runs sub-runs.
ProgressInit ==
    /\ \E r \in QueryRecords : store = [j \in Jobs |-> IF j = 1 THEN r ELSE AbsentRecord]
    /\ IdlePipeline
    /\ local_cache = TRUE
    /\ ConfigDefault
    /\ QueryIdle
    /\ WriteIdle
    /\ CleanupIdle
    /\ LateIdle
    /\ last_progress = NoProgress
    /\ now = StartTime
    /\ progress_fields = QueuedFields
    /\ progress_payload = NoPayload
    /\ sequential_runs \in 1..MaxRuns
    /\ run_idx = 0
    /\ slice_base = NoBase
    /\ updates = 0
    /\ offered = NoUpdate
    /\ forwarded = <<>>

\* generate_music calls the progress callback of the current run, dt quarters
\* of a second after the previous call.
ProgressCallback(raw, desc, dt) ==
    /\ updates < MaxUpdates
    /\ LET t == now + dt
           raw_f == clamp_value(raw)
           base == slice_base_after(slice_base, raw_f)
           value == IF sequential_runs > 1
                    THEN slice_mapped(base, slice_start(run_idx, sequential_runs),
                                      slice_end(run_idx, sequential_runs), raw_f)
                    ELSE raw_f
           value_f == clamp_value(value)
           stage == stage_of(desc, last_progress)
           rising == updates > 0 /\ offered.run = run_idx => FLe(offered.raw, raw_f)
           update == [value |-> value_f, stage |-> stage, time |-> t, run |-> run_idx,
                      raw |-> raw_f, rising |-> offered.rising /\ rising]
           stored == update_progress(store[1].status, progress_fields, value_f, stage)
       IN /\ now' = t
          /\ updates' = updates + 1
          /\ slice_base' = IF sequential_runs > 1 THEN base ELSE slice_base
          /\ offered' = update
          /\ IF throttle_passes(last_progress, value_f, stage, t)
             THEN /\ last_progress' = [value |-> value_f, time |-> t, stage |-> stage]
                  /\ progress_fields' = stored.fields
                  /\ progress_payload' =
                         IF stored.raises = NONE /\ local_cache
                         THEN progress_payload_of(value_f, stage)
                         ELSE progress_payload
                  /\ forwarded' = Append(forwarded, update)
             ELSE UNCHANGED <<last_progress, progress_fields, progress_payload, forwarded>>
    /\ UNCHANGED <<store, sequential_runs, run_idx, progressOthers>>

\* A full-analysis job announces its first step before any compute call.
StartDeepAnalysis ==
    /\ updates = 0
    /\ progress_fields' =
           update_progress_text(store[1].status, progress_fields, DeepAnalysisText)
    /\ UNCHANGED <<store, last_progress, now, progress_payload, sequential_runs, run_idx,
                   slice_base, updates, offered, forwarded, progressOthers>>

\* A sub-run returns and the next one starts with the callback of its slice.
NextSubRun ==
    /\ run_idx + 1 < sequential_runs
    /\ run_idx' = run_idx + 1
    /\ slice_base' = NoBase
    /\ UNCHANGED <<store, last_progress, now, progress_fields, progress_payload,
                   sequential_runs, updates, offered, forwarded, progressOthers>>

\* The job body raises and the running job is marked failed; the estimator
\* thread, joined with a timeout only, may still call the callback.
ProgressJobFails ==
    /\ store[1].status = "running"
    /\ store' = mark_failed(store, 1, Traceback(TimeoutErr))
    /\ UNCHANGED <<progressVars, progressOthers>>

ProgressNext ==
    \/ \E raw \in RawValues, desc \in Descs, dt \in TimeSteps : ProgressCallback(raw, desc, dt)
    \/ StartDeepAnalysis
    \/ NextSubRun
    \/ ProgressJobFails

ProgressSpec == ProgressInit /\ [][ProgressNext]_vars

\* ---------------------------------------------------------------------------
\* temporary_llm_model: the LLM is switched to another model for the body of
\* a with statement and switched back afterwards.
\* ---------------------------------------------------------------------------

Strip(text) == RStrip(LStrip(text))
\* A text or None.
Text(t) == [set |-> TRUE, raw |-> t]
NewModel == Text(<<"n">>)
OldModel == Text(<<"o">>)
RequestedPaths == {Unset, Text(<<>>), Text(<<" ">>), NewModel, Text(<<"n", " ">>)}
NewCheckpoints == "project-root/checkpoints"
PrevParamsSamples ==
    {PyNone, NotADict, EmptyDict,
     Params(Unset, "old-checkpoints", "pt"),
     Params(OldModel, "old-checkpoints", "pt"),
     Params(Text(<<" ", "n">>), "old-checkpoints", "pt")}
InitResults == {"ok", "not_ok", "raises"}
InitErr == "init_failed"

\* bool(x) of a value that is None or a dict
Truthy(p) == p.kind = "dict" /\ ~p.empty

\* desired = (lm_model_path or "").strip()
desired_of(path) == IF path.set THEN Strip(path.raw) ELSE <<>>

\* prev_model = (prev_params or {}).get("lm_model_path") if it is a dict
prev_model_of(prev) == IF Truthy(prev) THEN prev.lm_model_path ELSE Unset

\* How far the helper goes before the yield: "plain" (nothing to do or nothing
\* to do it with), "same" (the model is loaded already), "switch".
entry_path(path, handler, lock) ==
    IF desired_of(path) = <<>> THEN "plain"
    ELSE IF ~handler.present \/ ~handler.llm_initialized THEN "plain"
    ELSE IF ~lock.present THEN "plain"
    ELSE IF prev_model_of(handler.last_init_params).raw # <<>>
            /\ Strip(prev_model_of(handler.last_init_params).raw) = desired_of(path)
    THEN "same"
    ELSE "switch"

\* restore_params = prev_params if isinstance(prev_params, dict) else None
restore_params_of(prev) == IF prev.kind = "dict" THEN prev ELSE PyNone

switch_params_in_place(restore, checkpoint_dir, desired) ==
    LET new == IF Truthy(restore)
               THEN [restore EXCEPT !.checkpoint_dir = checkpoint_dir,
                                    !.lm_model_path = Text(desired)]
               ELSE Params(Text(desired), checkpoint_dir, "vllm")
    IN [new |-> new, restore |-> IF Truthy(restore) THEN new ELSE restore]

\* new_params is a copy of restore_params, or the defaults, with the
\* checkpoint directory and the model path set; restore_params is not touched.
switch_params(restore, checkpoint_dir, desired) ==
    [new |-> IF Truthy(restore)
             THEN [restore EXCEPT !.checkpoint_dir = checkpoint_dir,
                                  !.lm_model_path = Text(desired)]
             ELSE Params(Text(desired), checkpoint_dir, "vllm"),
     restore |-> restore]

\* app.state after an initialize call
flags_after(result) ==
    IF result = "ok" THEN [initialized |-> TRUE, error |-> NONE]
    ELSE [initialized |-> FALSE, error |-> InitErr]

\* The finally block of the switch path returns at once unless the switch
\* went through and there is something to restore.
finally_restores(frame) == frame.ok_switched /\ Truthy(frame.restore_params)

\* What leaves the with statement whose body raised body_exc (NONE: nothing).
\* A return inside the finally block ends the generator, and the exception
\* thrown into it at the yield is dropped.
exit_outcome(frame, body_exc) ==
    IF frame.pc = "switch" /\ ~finally_restores(frame) THEN NONE ELSE body_exc

llmOthers ==
    <<serverVars, configVars, queryVars, writeVars, cleanupVars, progressVars, estVars,
      stampVars, streamVars>>

LlmInit ==
    /\ ServerInit
    /\ ConfigDefault
    /\ QueryIdle
    /\ WriteIdle
    /\ CleanupIdle
    /\ ProgressIdle
    /\ EstIdle
    /\ StampIdle
    /\ StreamIdle
    /\ lm_model_path \in RequestedPaths
    /\ \E present, initialized \in BOOLEAN, prev \in PrevParamsSamples :
           llm = [present |-> present, llm_initialized |-> initialized,
                  last_init_params |-> prev, calls |-> <<>>]
    /\ \E present \in BOOLEAN : init_lock = [present |-> present, held |-> FALSE]
    /\ app_llm = [initialized |-> TRUE, error |-> NONE]
    /\ tlm = NoFrame
    /\ section_exc = NONE
    /\ caller_sees = NONE

\* The with statement is entered: the helper runs up to its yield; result is
\* what llm.initialize does when it is called.
EnterSection(result) ==
    /\ tlm.pc = "idle"
    /\ LET path == entry_path(lm_model_path, llm, init_lock)
           sp == switch_params(restore_params_of(llm.last_init_params), NewCheckpoints,
                               desired_of(lm_model_path))
       IN /\ init_lock' = [init_lock EXCEPT !.held = path # "plain"]
          /\ IF path = "switch"
             THEN /\ llm' = [llm EXCEPT !.calls = Append(@, sp.new)]
                  /\ app_llm' = IF result = "ok" THEN flags_after("ok")
                                ELSE flags_after("not_ok")
                  /\ tlm' = [pc |-> path, ok_switched |-> result = "ok",
                             restore_params |-> sp.restore]
             ELSE /\ tlm' = [NoFrame EXCEPT !.pc = path]
                  /\ UNCHANGED <<llm, app_llm>>
    /\ UNCHANGED <<lm_model_path, section_exc, caller_sees, llmOthers>>

\* The body of the with statement ends, normally or with body_exc, and the
\* helper runs from its yield to its end; result is what the restoring
\* llm.initialize does when it is called.
ExitSection(body_exc, result) ==
    /\ tlm.pc \in {"plain", "same", "switch"}
    /\ section_exc' = body_exc
    /\ caller_sees' = exit_outcome(tlm, body_exc)
    /\ IF tlm.pc = "switch" /\ finally_restores(tlm)
       THEN /\ llm' = [llm EXCEPT !.calls = Append(@, tlm.restore_params)]
            /\ app_llm' = IF result = "raises" THEN flags_after("raises")
                          ELSE flags_after("ok")
       ELSE UNCHANGED <<llm, app_llm>>
    /\ init_lock' = [init_lock EXCEPT !.held = FALSE]
    /\ tlm' = [tlm EXCEPT !.pc = "exited_" \o tlm.pc]
    /\ UNCHANGED <<lm_model_path, llmOthers>>

LlmNext ==
    \/ \E result \in InitResults : EnterSection(result)
    \/ \E body_exc \in {NONE, "boom"}, result \in InitResults : ExitSection(body_exc, result)

LlmSpec == LlmInit /\ [][LlmNext]_vars

\* ---------------------------------------------------------------------------
\* One job (job 1) with its progress-estimation thread: the thread calls the
\* progress callback until its stop event is set and is joined with a grace
\* period of one second.
\* ---------------------------------------------------------------------------

EstimatorOutcomes ==
    {[kind |-> "value", val |-> v] : v \in Results}
        \cup {[kind |-> "raise", val |-> e] : e \in Errors \cup {TimeoutErr}}

estOthers ==
    <<local_cache, submitVars, queueVars, notifyVars, workerVars, genVars, configVars,
      queryVars, writeVars, cleanupVars, progressVars, llmVars, stampVars, streamVars>>

EstimatorInit ==
    /\ store = create([j \in Jobs |-> AbsentRecord], 1)
    /\ IdlePipeline
    /\ local_cache = TRUE
    /\ ConfigDefault
    /\ QueryIdle
    /\ WriteIdle
    /\ CleanupIdle
    /\ ProgressIdle
    /\ LlmIdle
    /\ EstIdle
    /\ StampIdle
    /\ StreamIdle

\* _run_one_job marks the job running and writes the first progress payload;
\* the handler reports 0.52 and starts the estimator thread and the guarded
\* call.
EstimatedJobStarts ==
    /\ bpc = "none"
    /\ store' = RunOneJobHead(store, 1)
    /\ cache' = update_local_cache_progress(cache, local_cache, 1)
    /\ cache_writes' = cache_writes \o <<map_status("running"), map_status("running")>>
    /\ estimator' = [pc |-> "waiting", ticks |-> 0]
    /\ bpc' = "guarded"
    /\ UNCHANGED <<stop_event, guarded_out, estOthers>>

\* The estimator finds its stop event unset and enters the callback.
EstimatorTick ==
    /\ estimator.pc = "waiting"
    /\ ~stop_event
    /\ estimator.ticks < MaxTicks
    /\ estimator' = [pc |-> "calling", ticks |-> estimator.ticks + 1]
    /\ UNCHANGED <<store, cache, stop_event, bpc, guarded_out, cache_writes, estOthers>>

\* The callback forwards the update (forwards) or drops it: the store takes
\* it only while the job is running, the cache writer takes it always.
EstimatorCallback(forwards) ==
    /\ estimator.pc = "calling"
    /\ estimator' = [estimator EXCEPT !.pc = "waiting"]
    /\ IF forwards
       THEN /\ cache' = update_local_cache_progress(cache, local_cache, 1)
            /\ cache_writes' = Append(cache_writes, map_status("running"))
       ELSE UNCHANGED <<cache, cache_writes>>
    /\ UNCHANGED <<store, stop_event, bpc, guarded_out, estOthers>>

\* The estimator finds its stop event set and ends.
EstimatorEnds ==
    /\ estimator.pc = "waiting"
    /\ stop_event
    /\ estimator' = [estimator EXCEPT !.pc = "ended"]
    /\ UNCHANGED <<store, cache, stop_event, bpc, guarded_out, cache_writes, estOthers>>

\* The guarded call is over (result, exception or deadline): the finally
\* block sets the stop event and joins the estimator.
GuardedCallOver(out) ==
    /\ bpc = "guarded"
    /\ guarded_out' = out
    /\ stop_event' = TRUE
    /\ bpc' = "joining"
    /\ UNCHANGED <<store, cache, estimator, cache_writes, estOthers>>

\* progress_thread.join(timeout=1.0) returns: the thread has ended, or a
\* second has passed.
EstimatorJoinReturns ==
    /\ bpc = "joining"
    /\ bpc' = "post"
    /\ UNCHANGED <<store, cache, estimator, stop_event, guarded_out, cache_writes, estOthers>>

\* _run_one_job records the outcome and writes the terminal payload.
EstimatedJobEnds(ok1, ok2) ==
    /\ bpc = "post"
    /\ LET t == RunOneJobTail(store, cache, local_cache, 1, guarded_out, ok1, ok2) IN
       /\ store' = t.store
       /\ cache' = t.cache
       /\ cache_writes' = IF t.cache[1] \in {1, 2} THEN Append(cache_writes, t.cache[1])
                          ELSE cache_writes
    /\ bpc' = "done"
    /\ UNCHANGED <<estimator, stop_event, guarded_out, estOthers>>

EstimatorNext ==
    \/ EstimatedJobStarts
    \/ EstimatorTick
    \/ \E forwards \in BOOLEAN : EstimatorCallback(forwards)
    \/ EstimatorEnds
    \/ \E out \in EstimatorOutcomes : GuardedCallOver(out)
    \/ EstimatorJoinReturns
    \/ \E ok1, ok2 \in BOOLEAN : EstimatedJobEnds(ok1, ok2)

EstimatorSpec == EstimatorInit /\ [][EstimatorNext]_vars

\* ---------------------------------------------------------------------------
\* The create_time the cache writers stamp on a job's payloads, as time
\* passes between the writes.  Times are in quarter seconds; a payload
\* carries whole seconds.
\* ---------------------------------------------------------------------------

CreatedAtSamples == {0, 5}

\* int(create_time) of a time that is not negative
int_seconds(q) == q \div 4

get_record_env_and_time_now(record, now_q) == now_q

\* _get_record_env_and_time: the record's created_at, or now_fn() when the
\* store has no record of the job.
get_record_env_and_time(record, now_q) ==
    IF ~record.exists THEN now_q ELSE record.created_at

stampOthers ==
    <<serverVars, configVars, queryVars, writeVars, cleanupVars, progressVars, llmVars,
      estVars, streamVars>>

StampInit ==
    /\ ServerInit
    /\ ConfigDefault
    /\ QueryIdle
    /\ WriteIdle
    /\ CleanupIdle
    /\ ProgressIdle
    /\ LlmIdle
    /\ EstIdle
    /\ StreamIdle
    /\ job_record \in [exists : BOOLEAN, created_at : CreatedAtSamples]
    /\ clock = job_record.created_at
    /\ stamped = <<>>

\* A quarter of a second passes (the job waits in the queue or runs).
ClockTick ==
    /\ clock < MaxClock
    /\ clock' = clock + 1
    /\ UNCHANGED <<job_record, stamped, stampOthers>>

\* update_local_cache_progress builds its payload.
StampProgress ==
    /\ Len(stamped) < MaxStamps
    /\ stamped' = Append(stamped,
           [fn |-> "update_local_cache_progress", result |-> NONE, at |-> clock,
            payload |-> progress_result_data(
                            int_seconds(get_record_env_and_time(job_record, clock)))])
    /\ UNCHANGED <<job_record, clock, stampOthers>>

\* update_local_cache builds its payload.
StampTerminal(status, result) ==
    /\ Len(stamped) < MaxStamps
    /\ stamped' = Append(stamped,
           [fn |-> "update_local_cache", result |-> result, at |-> clock,
            payload |-> terminal_result_data(status, result,
                            int_seconds(get_record_env_and_time(job_record, clock)))])
    /\ UNCHANGED <<job_record, clock, stampOthers>>

StampNext ==
    \/ ClockTick
    \/ StampProgress
    \/ \E result \in ResultShapes : StampTerminal("succeeded", result)
    \/ StampTerminal("failed", NONE)

StampSpec == StampInit /\ [][StampNext]_vars

\* ---------------------------------------------------------------------------
\* The event stream of one streamed job: the worker publishes on the job's
\* channel, _openrouter_stream_generator reads it and yields chunks.
\* ---------------------------------------------------------------------------

\* A message on the channel.  audio: the result names a first raw audio
\* path; codes: the result has audio_codes.
StreamMsg(type, audio, codes) == [type |-> type, audio |-> audio, codes |-> codes]
DoneMsg == StreamMsg("done", FALSE, FALSE)
ErrorMsg == StreamMsg("error", FALSE, FALSE)
ResultMsgs == {StreamMsg("result", a, c) : a, c \in BOOLEAN}

\* What process_queue_item publishes for one job.
MessageScripts ==
    {<<r, DoneMsg>> : r \in ResultMsgs} \cup {<<ErrorMsg, DoneMsg>>, <<DoneMsg>>}

\* The chunks of the stream.
Chunk(kind, val) == [kind |-> kind, val |-> val]
RoleChunk == Chunk("role", "assistant")
Heartbeat == Chunk("content", ".")
ErrorContent == Chunk("content", "Error")
LmContent == Chunk("content", "lm_content")
AudioChunk == Chunk("audio", "audio_url")
CodesChunk == Chunk("content", "audio_codes")
FinishChunk(reason) == Chunk("finish_reason", reason)
DoneMarker == Chunk("data", "[DONE]")

handle_message_error_continues(msg, file_exists) ==
    IF msg.type = "done"
    THEN [out |-> <<FinishChunk("stop"), DoneMarker>>, ends |-> TRUE]
    ELSE IF msg.type = "error"
    THEN [out |-> <<ErrorContent, FinishChunk("error"), DoneMarker>>, ends |-> FALSE]
    ELSE [out |-> <<LmContent>>
                    \o (IF msg.audio /\ file_exists THEN <<AudioChunk>> ELSE <<>>)
                    \o (IF msg.codes THEN <<CodesChunk>> ELSE <<>>),
          ends |-> FALSE]

\* One pass of the generator's loop over a message it got: "done" leaves the
\* loop for the closing chunks, "error" yields its chunks and returns,
\* "result" yields the content, the audio if the file exists and the codes,
\* and the loop goes on.
handle_message(msg, file_exists) ==
    IF msg.type = "done"
    THEN [out |-> <<FinishChunk("stop"), DoneMarker>>, ends |-> TRUE]
    ELSE IF msg.type = "error"
    THEN [out |-> <<ErrorContent, FinishChunk("error"), DoneMarker>>, ends |-> TRUE]
    ELSE [out |-> <<LmContent>>
                    \o (IF msg.audio /\ file_exists THEN <<AudioChunk>> ELSE <<>>)
                    \o (IF msg.codes THEN <<CodesChunk>> ELSE <<>>),
          ends |-> FALSE]

streamOthers ==
    <<serverVars, configVars, queryVars, writeVars, cleanupVars, progressVars, llmVars,
      estVars, stampVars>>

StreamInit ==
    /\ ServerInit
    /\ ConfigDefault
    /\ QueryIdle
    /\ WriteIdle
    /\ CleanupIdle
    /\ ProgressIdle
    /\ LlmIdle
    /\ EstIdle
    /\ StampIdle
    /\ unpublished \in MessageScripts
    /\ chan = <<>>
    /\ consumed = <<>>
    /\ sse = <<>>
    /\ gpc = "start"
    /\ heartbeats = 0

\* The worker puts its next message on the channel.
WorkerPublishes ==
    /\ unpublished # <<>>
    /\ chan' = Append(chan, Head(unpublished))
    /\ unpublished' = Tail(unpublished)
    /\ UNCHANGED <<consumed, sse, gpc, heartbeats, streamOthers>>

\* The initial role chunk.
StreamStarts ==
    /\ gpc = "start"
    /\ sse' = Append(sse, RoleChunk)
    /\ gpc' = "waiting"
    /\ UNCHANGED <<unpublished, chan, consumed, heartbeats, streamOthers>>

\* wait_for(progress_queue.get(), timeout=2.0) times out on an empty channel.
StreamHeartbeat ==
    /\ gpc = "waiting"
    /\ chan = <<>>
    /\ heartbeats < MaxHeartbeats
    /\ sse' = Append(sse, Heartbeat)
    /\ heartbeats' = heartbeats + 1
    /\ UNCHANGED <<unpublished, chan, consumed, gpc, streamOthers>>

\* The generator gets a message and acts on it.
StreamHandles(file_exists) ==
    /\ gpc = "waiting"
    /\ chan # <<>>
    /\ LET h == handle_message(Head(chan), file_exists) IN
       /\ sse' = sse \o h.out
       /\ gpc' = IF h.ends THEN "finished" ELSE "waiting"
    /\ consumed' = Append(consumed, Head(chan).type)
    /\ chan' = Tail(chan)
    /\ UNCHANGED <<unpublished, heartbeats, streamOthers>>

StreamNext ==
    \/ WorkerPublishes
    \/ StreamStarts
    \/ StreamHeartbeat
    \/ \E file_exists \in BOOLEAN : StreamHandles(file_exists)

\* The worker publishes what it has to publish and the generator runs.
StreamSpec ==
    /\ StreamInit
    /\ [][StreamNext]_vars
    /\ WF_vars(WorkerPublishes)
    /\ WF_vars(StreamStarts)
    /\ WF_vars(\E file_exists \in BOOLEAN : StreamHandles(file_exists))

\* ------------------------------------------------ server without a cache
\* What the live cache holds for a job, as a cache entry: the payloads the
\* server writes carry the status code and the record's creation time.
LiveEntry(code) == IF code = -1 THEN NoEntry ELSE ItemsEntry(TRUE, code, TRUE, 2)

\* query_result_endpoint against the running server, asking for job 1 under
\* the id the query knows.
QueryLive(raw) ==
    /\ qpc = "idle"
    /\ task_id_list_raw' = raw
    /\ task_ids' = parse_task_id_list(body_get_task_id_list(raw))
    /\ data_list' = collect_query_results(parse_task_id_list(body_get_task_id_list(raw)),
                                          local_cache, LiveEntry(cache[1]), store[1],
                                          QueryTime, qlog)
    /\ qpc' = "done"
    /\ UNCHANGED <<queryOthers, qbackend, qcache, qrecord, qlog>>

NoCacheInit ==
    /\ PipelineInit
    /\ local_cache = FALSE
    /\ ConfigDefault
    /\ QueryIdle
    /\ WriteIdle
    /\ CleanupIdle
    /\ ProgressIdle
    /\ LateIdle

NoCacheNext ==
    \/ \E m \in Modes : SubmitDirect(m)
    \/ SubmitBegin
    \/ \E j \in Jobs, m \in Modes : SubmitResume(j, m)
    \/ \E j \in Jobs : PutUnblock(j)
    \/ Dequeue
    \/ \E v \in Results : BlockingGenerateEarly([kind |-> "value", val |-> v])
    \/ \E e \in Errors : BlockingGenerateEarly([kind |-> "raise", val |-> e])
    \/ StartGuardedCall
    \/ \E j \in Jobs, v \in Results : ServiceFinishes(j, "returned", v)
    \/ \E j \in Jobs, e \in Errors : ServiceFinishes(j, "raised", e)
    \/ \E j \in Jobs : OrphanFinishes(j)
    \/ JoinFinished
    \/ JoinTimeout
    \/ \E ok1, ok2 \in BOOLEAN : FinishJob(ok1, ok2)
    \/ \E xs \in IdLists : QueryLive(PyList(xs))

NoCacheSpec == NoCacheInit /\ [][NoCacheNext]_vars

\* ------------------------------------------------- polling a running server
\* The server with its cache, requests without audio input, and a client
\* that asks for job 1 while the log buffer holds some message.
PollInit ==
    /\ ServerInit
    /\ ConfigDefault
    /\ task_id_list_raw = PyMissing
    /\ qbackend = TRUE
    /\ qcache = NoEntry
    /\ qrecord = AbsentRecord
    /\ qlog = "step 3/8"
    /\ qpc = "idle"
    /\ task_ids = PyNull
    /\ data_list = NoResult
    /\ WriteIdle
    /\ CleanupIdle
    /\ ProgressIdle
    /\ LateIdle

PollNext ==
    \/ \E m \in Modes : SubmitDirect(m)
    \/ Dequeue
    \/ DequeueBodyRaises
    \/ \E v \in Results : BlockingGenerateEarly([kind |-> "value", val |-> v])
    \/ \E e \in Errors : BlockingGenerateEarly([kind |-> "raise", val |-> e])
    \/ StartGuardedCall
    \/ \E j \in Jobs, v \in Results : ServiceFinishes(j, "returned", v)
    \/ \E j \in Jobs, e \in Errors : ServiceFinishes(j, "raised", e)
    \/ \E j \in Jobs : OrphanFinishes(j)
    \/ JoinFinished
    \/ JoinTimeout
    \/ \E ok1, ok2 \in BOOLEAN : FinishJob(ok1, ok2)
    \/ QueryLive(PyList(<<KnownId>>))

PollSpec == PollInit /\ [][PollNext]_vars

\* =================================================================== claims
IsPrefix(a, b) == Len(a) <= Len(b) /\ \A i \in 1..Len(a) : a[i] = b[i]

Running(j) == gen[j].st = "running"

\* C1 (as stated): at most one compute call is in progress at any moment,
\* a call being in progress from gen_thread.start() until service_generate
\* returns, also after guarded-call timeouts.
C1_AtMostOneComputeCall ==
    Cardinality({j \in Jobs : Running(j)}) <= 1

\* C1 (amended): at most one job is running and at most one compute call that
\* its guarded executor has not abandoned is in progress, and it belongs to
\* the job the worker is processing; calls abandoned at a deadline may still
\* be in progress beside it.
C1_AtMostOneLiveGuardedCall ==
    /\ Cardinality({j \in Jobs : store[j].status = "running"}) <= 1
    /\ Cardinality({j \in Jobs : Running(j) /\ j \notin abandoned}) <= 1
    /\ \A j \in Jobs : Running(j) /\ j \notin abandoned => j = cur

C1_Witness ==
    \E a, j \in Jobs :
        /\ a \in abandoned /\ Running(a)
        /\ j \notin abandoned /\ Running(j)
        /\ store[a].status = "failed"

\* C2: every job's status moves only along queued -> running -> succeeded or
\* queued -> running -> failed: never from queued straight to a terminal
\* status, never backwards, and never away from a terminal status.
LegalTrails ==
    { <<>>, <<"queued">>, <<"queued", "running">>,
      <<"queued", "running", "succeeded">>, <<"queued", "running", "failed">> }

TerminalEntries(tr) == Len(SelectSeq(tr, LAMBDA x : x \in Terminal))

C3_TerminalMarkIsNoOp ==
    \A j \in Jobs :
        /\ TerminalEntries(store[j].trail) <= 1
        /\ store[j].status \in Terminal =>
               Outcome(store[j].status, store[j].result, store[j].error) = store[j].first

C3_Witness ==
    \E j \in Jobs :
        /\ j \in markedTerminal
        /\ bodyRaised[j] = CacheErr
        /\ store[j].first = Outcome("succeeded", "res_a", NONE)

\* C4: a record has a result only if it is succeeded and an error only if it
\* is failed.
C4_ResultErrorMatchStatus ==
    \A j \in Jobs :
        /\ store[j].result # NONE => store[j].status = "succeeded"
        /\ store[j].error # NONE => store[j].status = "failed"

C4_Witness ==
    \E a, b \in Jobs :
        /\ store[a].status = "succeeded" /\ store[a].result \in Results
        /\ store[b].status = "failed" /\ store[b].error # NONE
        /\ markedTerminal # {}

\* C5: for every processed job with a progress channel the worker published
\* exactly one outcome message ('result' if the job succeeded, 'error' if it
\* failed) and then exactly one 'done', which is the last message; the
\* completion event of a processed job that has one is set.
Processed(j) == acks[j] > 0

C5_OutcomeThenDone ==
    \A j \in Jobs :
        /\ (Processed(j) /\ mode[j] = "stream") =>
              /\ Len(progress_queue[j]) = 2
              /\ progress_queue[j][2].type = "done"
              /\ store[j].status = "succeeded" => progress_queue[j][1].type = "result"
              /\ store[j].status = "failed" => progress_queue[j][1].type = "error"
              /\ progress_queue[j][1].type \in {"result", "error"}
        /\ (Processed(j) /\ mode[j] = "wait") => done_event[j]
        /\ ~Processed(j) => (progress_queue[j] = <<>> /\ ~done_event[j])

\* C6: when the job body raises, the record becomes failed with a diagnostic
\* containing the exception's message, the exception stays inside the worker
\* and the worker goes on with later jobs.
C6_BodyExceptionBecomesFailure ==
    /\ wpc # "dead"
    /\ \A j \in Jobs :
           bodyRaised[j] # NONE =>
               /\ store[j].status = "failed"
               /\ Contains(store[j].error, bodyRaised[j])

\* C7: with one worker jobs are marked running in the order their enqueue
\* completed, and a job starts only after every job started before it has
\* reached a terminal status.
C7_FifoStart ==
    /\ IsPrefix(startOrder, enqOrder)
    /\ \A i \in 1..(Len(startOrder) - 1) : store[startOrder[i]].status \in Terminal

C7_Witness ==
    /\ Len(startOrder) >= 2
    /\ startOrder[1] > startOrder[2]
    /\ store[startOrder[2]].status = "running"

\* C8: a submission whose capacity check finds the queue full is rejected at
\* once and leaves the job store, the pending set, the temp-file registry and
\* the queue unchanged; no record is created for it.
C8_RejectionChangesNothing ==
    [][rejected' # rejected =>
          /\ QueueFull(job_queue)
          /\ UNCHANGED <<store, nextJob, pending_ids, job_temp_files, job_queue>>]_vars

C8_Witness ==
    /\ rejected > 0
    /\ QueueFull(job_queue)

\* C9: no submission ever waits for queue space: it enqueues without
\* blocking or is rejected with a queue-full error.
C9_NoSubmissionWaits ==
    \A j \in Jobs : sub[j] # "blocked"

\* C10: a guarded call ends in exactly one of three outcomes: the value of a
\* call that finished in time, the same exception a call raised in time, or
\* TimeoutError for a call still alive at the deadline.
C10_GuardedOutcomes ==
    (epc = "post" /\ joinSaw.st # "none") =>
        /\ joinSaw.alive => bres = [kind |-> "raise", val |-> TimeoutErr]
        /\ (~joinSaw.alive /\ joinSaw.st = "returned") =>
               bres = [kind |-> "value", val |-> joinSaw.val]
        /\ (~joinSaw.alive /\ joinSaw.st = "raised") =>
               bres = [kind |-> "raise", val |-> joinSaw.val]
        /\ joinSaw.alive \/ joinSaw.st \in {"returned", "raised"}

C10_Witness ==
    /\ epc = "post"
    /\ ~joinSaw.alive
    /\ joinSaw.st = "raised"
    /\ bres = [kind |-> "raise", val |-> "boom"]

\* C11: a call to the guarded executor always terminates, also when the
\* guarded compute call never returns: the caller waiting in join() is
\* released (through the deadline path if the call is still alive) and does
\* not wait for the call to finish.
C11_GuardedCallTerminates ==
    (epc = "joining") ~> (epc = "post")

C11_Witness ==
    /\ epc = "post"
    /\ joinSaw.alive
    /\ gen[cur].st = "running"
    /\ bres = [kind |-> "raise", val |-> TimeoutErr]

\* C12: a job whose guarded call exceeds the deadline is recorded as failed
\* with a diagnostic; the abandoned call is left running and may end later,
\* and when it does no record of the store changes: neither the status,
\* result or error of its own job nor any other job's record.
TimedOutRecord(r) == r.status = "failed" /\ Contains(r.error, TimeoutErr)

C12_LateCompletionChangesNothing ==
    [][/\ \A j \in Jobs :
            (cur = j /\ joinSaw.alive /\ acks'[j] = acks[j] + 1) =>
                TimedOutRecord(store'[j])
       /\ \A j \in Jobs :
            (j \in abandoned /\ gen[j].st = "running" /\ gen'[j] # gen[j]) =>
                store' = store
       /\ \A j \in Jobs :
            TimedOutRecord(store[j]) => store'[j] = store[j]]_vars

C12_Witness ==
    \E a, b \in Jobs :
        /\ TimedOutRecord(store[a])
        /\ Processed(a)
        /\ a \notin abandoned
        /\ gen[a] = NoThread
        /\ store[b].status = "succeeded"

\* C13: for every value of the generation-timeout setting the process comes
\* up and every deadline derived from the setting is positive: a text that
\* is no integer, or a zero or negative one, yields 600 and a positive
\* integer yields itself, so that no wait expires at once.
ConfiguredInt == py_int(environ_get(env_timeout, DefaultTimeoutText))
ExpectedTimeout ==
    IF ConfiguredInt.ok /\ ConfiguredInt.val > 0 THEN ConfiguredInt.val ELSE 600

HandlerDeadlinePositive ==
    /\ "generate_music_execute" \in loaded =>
           /\ DEFAULT_GENERATION_TIMEOUT > 0
           /\ DEFAULT_GENERATION_TIMEOUT = ExpectedTimeout
    /\ waits.join # "expired_at_once"

C13_EveryDeadlinePositive ==
    /\ ~crashed
    /\ HandlerDeadlinePositive
    /\ "openrouter_adapter" \in loaded =>
           /\ GENERATION_TIMEOUT > 0
           /\ GENERATION_TIMEOUT = ExpectedTimeout
    /\ waits.wait_for # "expired_at_once"

\* C14: a job cannot be cancelled once it is enqueued: when its waiter gives
\* up, the job stays where it is (in the queue or running) and nothing of the
\* store, the queue, the pending set, the temp-file registry or the worker
\* changes; the job is still processed to a terminal status and the worker
\* removes its pending entry and its temp files.
InQueue(j) == \E i \in 1..Len(job_queue) : job_queue[i] = j
InPending(j) == \E i \in 1..Len(pending_ids) : pending_ids[i] = j

C14_NoCancellation ==
    /\ [][gaveUp' # gaveUp =>
            UNCHANGED <<store, job_queue, pending_ids, job_temp_files, workerVars, genVars>>]_vars
    /\ [](\A j \in gaveUp :
            /\ ~Processed(j) => (InQueue(j) \/ cur = j) /\ InPending(j)
            /\ Processed(j) =>
                  /\ store[j].status \in Terminal
                  /\ ~InPending(j)
                  /\ j \notin job_temp_files
                  /\ cleanups[j] = 1)
    /\ []<>(\A j \in gaveUp : Processed(j))

C14_Witness ==
    \E j \in gaveUp :
        /\ Processed(j)
        /\ store[j].status = "succeeded"
        /\ cleanups[j] = 1

\* C15: with no cache backend configured every cache write (the progress
\* write and the terminal writes) is a no-op that raises nothing, so that no
\* job body raises and every processed job's waiter gets the outcome its
\* record holds; the aggregator reads no cache and answers each id from the
\* store record alone, or with the default item.
StoreOnlyItem(task_id) ==
    IF store_get(store[1], task_id).status = "absent"
    THEN Item(task_id, 0, EmptyListText, NoText)
    ELSE build_store_result_payload(task_id, store_get(store[1], task_id), qlog)

C15_NoBackendIsNoOp ==
    /\ [](~local_cache =>
            /\ \A j \in Jobs : cache[j] = -1 /\ bodyRaised[j] = NONE
            /\ markedTerminal = {}
            /\ wpc # "dead"
            /\ \A j \in Jobs :
                 Processed(j) =>
                    /\ store[j].status \in Terminal
                    /\ mode[j] = "stream" =>
                          progress_queue[j][1].type =
                              (IF store[j].status = "succeeded" THEN "result" ELSE "error"))
    /\ [][(~local_cache /\ qpc = "idle" /\ qpc' = "done") =>
            /\ data_list'.ok
            /\ Len(data_list'.items) = Len(task_ids'.v)
            /\ \A i \in 1..Len(task_ids'.v) :
                 data_list'.items[i] = StoreOnlyItem(task_ids'.v[i])]_vars

C15_Witness ==
    /\ ~local_cache
    /\ qpc = "done"
    /\ Len(data_list.items) = 2
    /\ data_list.items[1].task_id = KnownId
    /\ data_list.items[1].status = 1
    /\ data_list.items[2] = Item(UnknownId, 0, EmptyListText, NoText)
    /\ Processed(1)
    /\ mode[1] = "stream"

\* C16: collect_query_results returns exactly one item per requested id, in
\* the order of the input list, each item carrying the task_id it answers;
\* an id that is repeated in the list is answered once per occurrence.
ListQueryDone == qpc = "done" /\ task_ids.k = "list"

HasEntry(task_id) == qbackend /\ cache_get(qcache, task_id).kind # "none"
HasRecord(task_id) == store_get(qrecord, task_id).status # "absent"

RunningEntry(e) == e.kind = "items" /\ e.has_status /\ e.status = 0 /\ e.has_create_time

EncodesList(raw) == json_loads(raw).ok /\ json_loads(raw).val.k = "list"

C20_NonListYieldsEmpty ==
    (qpc = "done" /\ task_id_list_raw.k # "list" /\ ~EncodesList(task_id_list_raw)) =>
        data_list = Returned(<<>>)

\* C21: a cache entry that cannot be interpreted (unparsable text, no
\* non-empty array of objects, or a status or create_time of an unexpected
\* type) makes only its own item report status 2: the batch call raises
\* nothing and every other id gets the item it would get if queried alone.
WrongTyped(e) == e.kind = "items" /\ (e.status_type # "int" \/ e.create_time_type # "int")
Uninterpretable(e) == e.kind \in CorruptKinds \/ WrongTyped(e)
QueriedAlone(id) ==
    collect_query_results(PyList(<<id>>), qbackend, qcache, qrecord, QueryTime, qlog)

C21_CorruptEntryIsolated ==
    (ListQueryDone /\ qbackend /\ Uninterpretable(qcache)) =>
        /\ data_list.ok
        /\ \A i \in 1..Len(data_list.items) :
              /\ task_ids.v[i] = KnownId => data_list.items[i].status = 2
              /\ task_ids.v[i] # KnownId =>
                    (QueriedAlone(task_ids.v[i]).ok
                     /\ data_list.items[i] = QueriedAlone(task_ids.v[i]).items[1])

\* The part of C21 the code keeps: entries json.loads rejects and entries
\* that are no non-empty array of objects.
MalformedEntryIsolated ==
    (ListQueryDone /\ qbackend /\ qcache.kind \in CorruptKinds) =>
        /\ data_list.ok
        /\ \A i \in 1..Len(data_list.items) :
              task_ids.v[i] = KnownId => data_list.items[i].status = 2

\* C22: every store-derived item and every payload written to the cache
\* reports the status code of the fixed mapping queued -> 0, running -> 0,
\* succeeded -> 1, failed -> 2, any other status text -> 2: a payload that
\* carries a status carries that code, the aggregator reads every payload
\* back as that code, and a store-derived item has the code of its record.
LegacyCode(status) ==
    CASE status = "queued" -> 0
      [] status = "running" -> 0
      [] status = "succeeded" -> 1
      [] status = "failed" -> 2
      [] OTHER -> 2

C22_StatusCodeMapping ==
    /\ (last_write.fn # "none" /\ qbackend) =>
          /\ last_write.payload.kind = "items"
          /\ last_write.payload.has_status =>
                 last_write.payload.status = LegacyCode(last_write.status)
          /\ int_status(last_write.payload).ok
          /\ int_status(last_write.payload).val = LegacyCode(last_write.status)
    /\ ListQueryDone =>
          \A i \in 1..Len(task_ids.v) :
              (~HasEntry(task_ids.v[i]) /\ HasRecord(task_ids.v[i])) =>
                  data_list.items[i].status = LegacyCode(qrecord.status)

C22_Witness ==
    /\ ListQueryDone
    /\ qbackend
    /\ last_write.status = "paused"
    /\ last_write.payload.status = 2
    /\ qcache = NoEntry
    /\ qrecord.status = "paused"
    /\ task_ids.v = <<KnownId>>
    /\ data_list.items[1].status = 2
    /\ data_list.items[1].progress_text = RecordText

\* C23: for a well-formed cache entry that is not stale the query reports
\* the status of the entry's first element unchanged, and the item carries
\* the live progress-log text (the latest message of the log buffer at query
\* time) when the job is still running (status 0).
FreshEntry(e) ==
    /\ e.kind = "items"
    /\ e.has_status
    /\ e.status_type = "int"
    /\ ~(e.status = 0
         /\ QueryTime - (IF e.has_create_time THEN e.create_time ELSE 0) > TASK_TIMEOUT_SECONDS)

C23_FreshEntryReportedWithLog ==
    (ListQueryDone /\ qbackend /\ FreshEntry(qcache)) =>
        /\ data_list.ok
        /\ \A i \in 1..Len(task_ids.v) :
              task_ids.v[i] = KnownId =>
                  /\ data_list.items[i].status = qcache.status
                  /\ qcache.status = 0 => data_list.items[i].progress_text = LogText(qlog)

\* C24 (as stated): a job that has been submitted but not yet marked running
\* is reported by a query as status 0 with the result "[]".
C24_QueuedReportedAsEmptyList ==
    (qpc = "done" /\ store[1].status = "queued") =>
        /\ data_list.ok
        /\ data_list.items[1].status = 0
        /\ data_list.items[1].result = EmptyListText

\* C24 (amended): a job that has been submitted but not yet marked running
\* is reported with status 0, the log text and the result built from its
\* queued record, not with the default result "[]"; once mark_running and
\* the first progress write have occurred the query reports status 0 with
\* the log text, from the job's cache entry.
C24_QueuedThenRunningReported ==
    [][(qpc = "idle" /\ qpc' = "done") =>
          /\ data_list'.ok
          /\ Len(data_list'.items) = 1
          /\ store[1].status = "queued" =>
                data_list'.items[1] =
                    Item(KnownId, 0, StoreJson(store[1]), LogText(qlog))
          /\ (store[1].status = "running" /\ cache[1] = 0) =>
                data_list'.items[1] =
                    Item(KnownId, 0, CacheData(LiveEntry(0)), LogText(qlog))]_vars

C24_Witness ==
    /\ qpc = "done"
    /\ store[1].status = "running"
    /\ cache[1] = 0
    /\ data_list.items[1] = Item(KnownId, 0, CacheData(LiveEntry(0)), LogText(qlog))

\* C25: the cleanup loop runs one sweep after each interval; an exception a
\* sweep raises is logged and the loop goes on with the next interval; the
\* loop stops only when it is cancelled, and then it exits without raising.
ErrorLines(log) == Len(SelectSeq(log, LAMBDA l : l[1] = "Job cleanup error"))

C25_CleanupLoopSurvivesSweepErrors ==
    /\ [](/\ lpc # "dead"
          /\ lpc \in {"sleeping", "exited"} => sweeps = intervals
          /\ lpc = "sweeping" => sweeps + 1 = intervals
          /\ ErrorLines(cleanup_log) = sweep_errors)
    /\ [][/\ sweep_errors' # sweep_errors => lpc' = "sleeping"
          /\ lpc' = "exited" => lpc \in {"sleeping", "exited"}]_vars

C25_Witness ==
    /\ lpc = "exited"
    /\ sweeps = 2
    /\ sweep_errors = 1
    /\ cleanup_log[1][1] = "Job cleanup error"
    /\ cleanup_log[2][1] = "Cleaned up"

\* C26: cleanup_old_jobs removes exactly the records that are succeeded or
\* failed and older than the maximum age, returns their number, and never
\* removes a queued or running record however old it is.
OldTerminal(j) ==
    store[j].status \in {"succeeded", "failed"} /\ age[j] > JOB_STORE_MAX_AGE_SECONDS

C26_CleanupRemovesOnlyOldTerminal ==
    [][(sweeps' = sweeps + 1 /\ sweep_errors' = sweep_errors) =>
          /\ \A j \in Jobs : OldTerminal(j) => store'[j] = AbsentRecord
          /\ \A j \in Jobs : ~OldTerminal(j) => store'[j] = store[j]
          /\ \A j \in Jobs : store[j].status \in {"queued", "running"} => store'[j] = store[j]
          /\ last_removed' = Cardinality({j \in Jobs : OldTerminal(j)})]_vars

C26_Witness ==
    /\ sweeps = 1
    /\ sweep_errors = 0
    /\ last_removed = 2
    /\ \E j \in Jobs : store[j].status = "running" /\ age[j] > JOB_STORE_MAX_AGE_SECONDS
    /\ \E j \in Jobs : store[j].status = "absent"

\* C27: whatever the outcome of the job body (normal return or exception),
\* when the processing of a queue item ends the job id is no longer in the
\* pending set, temp-file cleanup has been invoked for it exactly once and
\* its registry entry is gone, and the item has been acknowledged exactly
\* once; nothing of this happens before the processing ends.
C27_FinallyRunsOnce ==
    \A j \in Jobs :
        /\ Processed(j) =>
              /\ ~InPending(j)
              /\ j \notin job_temp_files
              /\ cleanups[j] = 1
              /\ acks[j] = 1
        /\ ~Processed(j) => (cleanups[j] = 0 /\ acks[j] = 0)
        /\ (sub[j] = "enqueued" /\ ~Processed(j)) => InPending(j)

C27_Witness ==
    \E a, b \in Jobs :
        /\ Processed(a) /\ bodyRaised[a] # NONE /\ cleanups[a] = 1
        /\ Processed(b) /\ bodyRaised[b] = NONE /\ store[b].status = "succeeded"
        /\ startOrder = <<a, b>>
        /\ job_temp_files = {}

\* An update u qualifies against the previously forwarded update p when its
\* value is at least 0.01 higher, its stage differs, or it comes at least
\* 0.5 s later.
Qualifies(u, p) ==
    \/ FLe(Hundredth, FSub(u.value, p.value))
    \/ u.stage # p.stage
    \/ u.time - p.time >= HalfSecond

LastForwarded == forwarded[Len(forwarded)]

\* C28: every progress update forwarded to the job store and the cache
\* qualifies against the previously forwarded one (value at least 0.01 higher,
\* stage changed, or at least 0.5 s later); an update that does not qualify is
\* dropped and changes neither the store, the cached payload nor the throttle
\* state.
C28_ThrottledForwarding ==
    [][updates' = updates + 1 =>
          /\ forwarded' # forwarded =>
                /\ forwarded' = Append(forwarded, offered')
                /\ forwarded # <<>> => Qualifies(offered', LastForwarded)
                /\ progress_payload' = [progress |-> offered'.value, stage |-> offered'.stage]
          /\ (forwarded # <<>> /\ ~Qualifies(offered', LastForwarded)) =>
                UNCHANGED <<forwarded, store, progress_fields, progress_payload,
                            last_progress>>]_vars

C28_Witness ==
    /\ updates = 3
    /\ Len(forwarded) = 2
    /\ offered = forwarded[2]
    /\ forwarded[2].stage = forwarded[1].stage
    /\ ~FLe(Hundredth, FSub(forwarded[2].value, forwarded[1].value))
    /\ forwarded[2].time - forwarded[1].time = HalfSecond
    /\ progress_fields.progress = forwarded[2].value
    /\ store[1].status = "running"

\* The forwarded values of sequential mode lie in the slice of their sub-run.
ForwardedInSlice ==
    sequential_runs > 1 =>
        \A k \in 1..Len(forwarded) :
            /\ FLe(slice_start(forwarded[k].run, sequential_runs), forwarded[k].value)
            /\ FLe(forwarded[k].value, slice_end(forwarded[k].run, sequential_runs))

ForwardedNeverDecreases ==
    \A k, l \in 1..Len(forwarded) : k < l => FLe(forwarded[k].value, forwarded[l].value)

\* C29: in sequential mode with N sub-runs every value forwarded for the
\* running job during sub-run i lies in [i/N, (i+1)/N], and no forwarded value
\* is lower than an earlier forwarded one, also across sub-run boundaries.
C29_SequentialProgressMonotone ==
    (sequential_runs > 1 /\ store[1].status = "running") =>
        (ForwardedInSlice /\ ForwardedNeverDecreases)

\* As long as the raw values of each sub-run do not decrease, the forwarded
\* values of sequential mode do not decrease either.
RisingRawForwardedRising ==
    (sequential_runs > 1 /\ offered.rising) => ForwardedNeverDecreases

\* C30: the progress, stage and progress_text of a job change only while its
\* status is running; update_progress on a queued, terminal or unknown job
\* leaves the job store unchanged and raises nothing, so the callback goes on
\* to its cache write.
C30_ProgressOnlyWhileRunning ==
    [][/\ progress_fields' # progress_fields => store[1].status = "running"
       /\ (store[1].status # "running" /\ forwarded' # forwarded) =>
             /\ UNCHANGED <<store, progress_fields>>
             /\ progress_payload' = progress_payload_of(offered'.value, offered'.stage)]_vars

C30_Witness ==
    /\ store[1].status = "failed"
    /\ store[1].trail = <<"queued", "running", "failed">>
    /\ Len(forwarded) = 2
    /\ progress_fields.progress = forwarded[1].value
    /\ progress_fields.progress # forwarded[2].value
    /\ progress_payload.progress = forwarded[2].value
    /\ progress_fields.progress_text = DeepAnalysisText

\* C31: a cache write that raises never changes a job's outcome: when the
\* compute call of a job returned a result, the job body returns, the record
\* is succeeded with that result and the waiter gets the result (or its
\* completion event), whether or not the cache writes went through.
C31_CacheFailureKeepsOutcome ==
    [][(wpc = "executing" /\ epc = "post" /\ bres.kind = "value" /\ acks' # acks) =>
          /\ store'[cur].status = "succeeded"
          /\ store'[cur].result = bres.val
          /\ bodyRaised'[cur] = NONE
          /\ mode[cur] = "stream" =>
                progress_queue'[cur] = <<Msg("result", bres.val), Msg("done", NONE)>>
          /\ mode[cur] = "wait" => done_event'[cur]]_vars

Exited == tlm.pc \in {"exited_plain", "exited_same", "exited_switch"}
LastCall == llm.calls[Len(llm.calls)]

\* C32: when temporary_llm_model switched the model successfully and the
\* previous init parameters were known, then after every exit from the
\* section, normal or by exception, the last initialize call was made with
\* exactly the previous parameters, it was the second call, and the init lock
\* is free.
C32_RestoredOnEveryExit ==
    (Exited /\ tlm.ok_switched /\ Truthy(llm.last_init_params)) =>
        /\ Len(llm.calls) = 2
        /\ LastCall = llm.last_init_params
        /\ llm.calls[1] # llm.last_init_params
        /\ ~init_lock.held

C32_Witness ==
    /\ Exited
    /\ tlm.ok_switched
    /\ section_exc = "boom"
    /\ caller_sees = "boom"
    /\ Len(llm.calls) = 2
    /\ LastCall = Params(OldModel, "old-checkpoints", "pt")
    /\ llm.calls[1] = Params(NewModel, NewCheckpoints, "pt")
    /\ app_llm.error = InitErr

\* C33: an exception raised inside the section always reaches the caller
\* unchanged, whether the switch failed, the previous configuration was
\* missing or the restoration failed.
C33_SectionExceptionPropagates ==
    Exited => caller_sees = section_exc

NoDuplicates(q) == \A i, k \in 1..Len(q) : i # k => q[i] # q[k]
Submitted(j) == sub[j] \in {"enqueued", "blocked"}

PendingSetExact ==
    /\ NoDuplicates(pending_ids)
    /\ \A j \in Jobs :
           /\ InPending(j) <=> (Submitted(j) /\ store[j].status \in {"queued", "running"})
           /\ InPending(j) <=> (Submitted(j) /\ ~Processed(j))
           /\ (InQueue(j) \/ cur = j) => InPending(j)

PendingChangesOnlyAtEnds ==
    pending_ids' # pending_ids =>
          \E j \in Jobs :
              \/ /\ ~Submitted(j) /\ Submitted(j)'
                 /\ pending_ids' = Append(pending_ids, j)
              \/ /\ ~Processed(j) /\ Processed(j)'
                 /\ pending_ids' = RemoveFirst(pending_ids, j)
                 /\ InPending(j)

\* C34: the pending set holds exactly the ids of the submitted jobs that are
\* queued or running, which are the submitted jobs whose processing has not
\* ended; an id is appended once, at submission, removed once, when its
\* processing ends, and is never in the set twice.
C34_PendingSetExact == []PendingSetExact /\ [][PendingChangesOnlyAtEnds]_vars

C34_Witness ==
    /\ Len(pending_ids) = 3
    /\ pending_ids = <<1, 2, 3>>
    /\ \E j \in Jobs : sub[j] = "blocked"
    /\ cur # 0
    /\ Len(job_queue) = 1

\* C35: once the terminal cache payload (status 1 or 2) of a job has been
\* written, no later write replaces it with a progress payload (status 0):
\* every progress write of the job precedes its terminal write.
C35_NoProgressAfterTerminal ==
    \A k, l \in 1..Len(cache_writes) :
        (k < l /\ cache_writes[k] \in {1, 2}) => cache_writes[l] # 0

\* A terminal payload written while the estimator is mid-callback.
C35_TerminalWrittenWhileCalling ==
    bpc = "done" /\ estimator.pc = "calling" /\ cache[1] \in {1, 2}

\* C36: every job that has been enqueued eventually reaches succeeded or
\* failed and its waiter is eventually notified (completion event set, or
\* 'done' published on its channel), under a fairly scheduled worker, even if
\* the guarded compute call of this job or of an earlier job never returns.
WaiterNotified(j) ==
    IF mode[j] = "stream"
    THEN Len(progress_queue[j]) > 0
            /\ progress_queue[j][Len(progress_queue[j])] = Msg("done", NONE)
    ELSE done_event[j]

C36_EnqueuedJobCompletes ==
    \A j \in Jobs :
        (sub[j] = "enqueued") ~> (store[j].status \in Terminal /\ WaiterNotified(j))

\* A job whose compute call was abandoned and is still running has failed
\* and its waiter is notified, and a later job has succeeded and its waiter
\* is notified.
C36_Witness ==
    \E j, k \in Jobs :
        /\ j < k
        /\ j \in abandoned
        /\ gen[j].st = "running"
        /\ store[j].status = "failed"
        /\ WaiterNotified(j)
        /\ store[k].status = "succeeded"
        /\ WaiterNotified(k)

\* C37: for a job in a terminal state whose terminal cache payload was
\* written, the cache-derived query item and the store-derived query item
\* report the same status code and the same list of file paths (one per
\* output artifact, or a single empty placeholder).
\* The terminal write that left status code 1 is the one of the "succeeded"
\* branch with the job's result, code 2 the one of the "failed" branch with
\* no result.
TerminalWritten(j) == cache[j] \in {1, 2}
WrittenStatus(j) == IF cache[j] = 1 THEN "succeeded" ELSE "failed"
WrittenResult(j) == IF cache[j] = 1 THEN store[j].result ELSE NONE
CacheItem(j) ==
    build_running_result_payload(
        KnownId, terminal_result_data(WrittenStatus(j), WrittenResult(j), 0), QueryTime, "")
StoreItem(j) == build_store_result_payload(KnownId, store[j], "")

C37_CacheAndStoreAgree ==
    \A j \in Jobs :
        (store[j].status \in Terminal /\ TerminalWritten(j)) =>
            /\ CacheItem(j).status = StoreItem(j).status
            /\ written_file_paths(WrittenStatus(j), WrittenResult(j))
                   = store_file_paths(store[j])

\* The two items agree whenever the job body did not take the path of a
\* failing "succeeded" cache write.
AgreeUnlessCacheWriteFailed ==
    \A j \in Jobs :
        (store[j].status \in Terminal /\ TerminalWritten(j)
            /\ ~(store[j].status = "succeeded" /\ cache[j] = 2)) =>
            /\ CacheItem(j).status = StoreItem(j).status
            /\ written_file_paths(WrittenStatus(j), WrittenResult(j))
                   = store_file_paths(store[j])

\* C38: every payload written by update_local_cache or
\* update_local_cache_progress is read back by the aggregator as well-formed:
\* unless the staleness rule applies, the aggregator never reports the entry
\* as corrupted (status 2 without a progress text) and reports the status
\* code of the write (0 for progress, 1 for succeeded, 2 for failed), for
\* every result shape including full-analysis results.
WrittenEntryInCache == qbackend /\ last_write.fn # "none" /\ qcache = last_write.payload
StalenessApplies(entry) ==
    StatusIsZero(entry) /\ (QueryTime - entry.create_time) > TASK_TIMEOUT_SECONDS

C38_WrittenPayloadReadBack ==
    (ListQueryDone /\ WrittenEntryInCache) =>
        /\ data_list.ok
        /\ \A i \in 1..Len(task_ids.v) :
              task_ids.v[i] = KnownId =>
                  LET it == data_list.items[i] IN
                  /\ ~IsRaise(it)
                  /\ it.result = CacheData(last_write.payload)
                  /\ ~StalenessApplies(last_write.payload) =>
                        /\ it.status = LegacyCode(last_write.status)
                        /\ it.progress_text = LogText(qlog)

\* A full-analysis payload read back as succeeded.
C38_Witness ==
    /\ ListQueryDone
    /\ WrittenEntryInCache
    /\ task_ids.v = <<UnknownId, KnownId>>
    /\ last_write.fn = "update_local_cache"
    /\ last_write.status = "succeeded"
    /\ last_write.result = "analysis"
    /\ data_list.items[2].status = 1
    /\ data_list.items[2].progress_text = LogText(qlog)

\* C39: every cache payload written for a job whose record exists carries
\* create_time equal to the job's creation time, the same in all progress and
\* terminal writes of that job, so that staleness of a running entry is
\* measured from job creation and not from the last progress update.
C39_CreateTimeIsCreationTime ==
    job_record.exists =>
        \A k \in 1..Len(stamped) :
            /\ stamped[k].payload.has_create_time
            /\ stamped[k].payload.create_time * 4 = job_record.created_at

\* As the writers do it: the creation time in whole seconds (the fraction
\* is cut off), in every payload but the full-analysis one, which is the
\* result itself and carries no create_time; a progress payload is stale by
\* the creation time, whenever it was written.
IsFullAnalysis(w) == w.fn = "update_local_cache" /\ ~w.payload.has_status

C39_CreateTimeIsCreationSecond ==
    job_record.exists =>
        \A k \in 1..Len(stamped) :
            LET w == stamped[k]
                item == build_running_result_payload(KnownId, w.payload, QueryTime, "")
            IN /\ IsFullAnalysis(w) <=> (w.result = "analysis" /\ w.payload = ItemsEntry(FALSE, 0, FALSE, 0))
               /\ ~IsFullAnalysis(w) =>
                     /\ w.payload.has_create_time
                     /\ w.payload.create_time = int_seconds(job_record.created_at)
               /\ w.fn = "update_local_cache_progress" =>
                     item.status =
                         (IF QueryTime - int_seconds(job_record.created_at) > TASK_TIMEOUT_SECONDS
                          THEN 2 ELSE 0)

\* Two progress payloads and a terminal payload written over a second or
\* more for a job created at 1.25 s, all stamped 1.
C39_Witness ==
    /\ job_record = [exists |-> TRUE, created_at |-> 5]
    /\ Len(stamped) = 3
    /\ stamped[1].fn = "update_local_cache_progress"
    /\ stamped[2].fn = "update_local_cache_progress"
    /\ stamped[3].fn = "update_local_cache"
    /\ stamped[3].result = "res_a"
    /\ stamped[2].at >= stamped[1].at + 1
    /\ stamped[3].at >= stamped[1].at + 4
    /\ \A k \in 1..3 : stamped[k].payload.create_time = 1

\* C40: for every message sequence the worker can publish on a job's
\* channel (result then done, error then done, or done alone), the streaming
\* response terminates and ends with exactly one '[DONE]' marker, preceded by
\* a finish chunk with reason 'error' after an error message and 'stop'
\* otherwise.
CountOf(s, x) == Len(SelectSeq(s, LAMBDA c : c = x))
SawError == \E k \in 1..Len(consumed) : consumed[k] = "error"

StreamEndsProperly ==
    /\ Len(sse) >= 2
    /\ sse[Len(sse)] = DoneMarker
    /\ CountOf(sse, DoneMarker) = 1
    /\ sse[Len(sse) - 1] = FinishChunk(IF SawError THEN "error" ELSE "stop")
    /\ CountOf(sse, FinishChunk("error")) + CountOf(sse, FinishChunk("stop")) = 1

C40_StreamEndsWithOneDone ==
    /\ <>(gpc = "finished")
    /\ [](gpc = "finished" => StreamEndsProperly)
    /\ [][gpc = "finished" => sse' = sse]_vars

\* A stream that sent heartbeats, a result with audio and codes, and closed
\* with the stop chunk and the marker.
C40_Witness ==
    /\ gpc = "finished"
    /\ consumed = <<"result", "done">>
    /\ heartbeats = 1
    /\ sse = <<RoleChunk, Heartbeat, LmContent, AudioChunk, CodesChunk,
               FinishChunk("stop"), DoneMarker>>

====
